---- MODULE Spec2Model ----
(***************************************************************************)
(* A model of the klaros normalization-and-export pipeline: the chunked    *)
(* (Aspendos) exporter, the ChatGPT and Claude loaders, the processor      *)
(* chain (cleaner, privacy redactor, tagger) and the convert run loop.     *)
(* Texts are sequences of one-character strings, so that lengths, joins,   *)
(* trims and pattern substitutions are computed, not assumed.              *)
(***************************************************************************)
EXTENDS Integers, Sequences, FiniteSets, TLC

VARIABLES
    \* ---- AspendosExporter (exporters/aspendos_exporter.py) ----
    chunk_size,               \* self.chunk_size
    max_chars,                \* self.max_chars
    exp_pc,                   \* position inside export()
    exp_chats,                \* the chats argument of export()
    ci,                       \* index of the chat the for loop of export() is at
    mi,                       \* index of the message the loop of _create_chunks is at
    chunk_id,                 \* export(): chunk_id
    export_data,              \* export(): export_data (conversations, chunks)
    chunks,                   \* _create_chunks(): chunks
    current_chunk_text,       \* _create_chunks(): current_chunk_text
    current_chunk_messages,   \* _create_chunks(): current_chunk_messages
    current_length,           \* _create_chunks(): current_length
    out_file,                 \* the document written to output_path
    \* ---- a chat passing through processors (cli.py lines 157-158) ----
    p_input,                  \* the chat handed to the first processor
    p_chat,                   \* chat: the value the last process() returned
    p_steps,                  \* the number of process() calls made on it
    p_last,                   \* the processor that made the last call
    \* ---- ChatGPTLoader._parse_conversation lines 68-76 on one mapping ----
    t_pc,                     \* position inside _parse_conversation
    t_mapping,                \* mapping
    t_root_id,                \* root_id
    t_messages,               \* messages, the result of _traverse_tree
    \* ---- convert (cli.py) ----
    cv_pc,                    \* position inside convert()
    cv_source,                \* --source
    options,                  \* --clean, --redact-pii, --extract-tags; rake installed
    input_file,               \* the content of input_file
    total_conversations,      \* the result of loader.count_conversations
    data_pos,                 \* the records of data the generator load() has consumed
    cv_chat,                  \* chat, the value load() has yielded (none or one)
    stats,                    \* stats: ConversionStats
    processed_chats,          \* processed_chats
    exported,                 \* the lists handed to exporter.export (none or one)
    format,                   \* --format
    loader,                   \* loader, the result of get_loader
    exporter,                 \* exporter, the result of get_exporter
    input_read,               \* input_file has been opened and read
    \* ---- one processor, constructed and then called (processors/*.py) ----
    call_pc,                  \* position: before the constructor, between calls
    service,                  \* the processor and the arguments of its constructor
    heap,                     \* the chat objects that exist, by reference
    call_arg,                 \* the reference passed to the last process()
    call_snapshot,            \* the value of that object when process() was called
    call_result,              \* the reference the last process() returned
    call_error,               \* the exception that was raised, if any
    \* ---- MarkdownExporter.export (exporters/markdown_exporter.py) ----
    md_pc,                    \* position inside export()
    md_chats,                 \* the chats argument of export()
    md_pos,                   \* the chats the for loop has handled
    directory,                \* the files of output_path: name and content
    md_log,                   \* the writes made: path, and whether it existed
    \* ---- load() of one loader on one record (loaders/*.py lines 54-57) ----
    ld_pc,                    \* position inside the body of the loop of load()
    ld_source,                \* the platform of the loader
    ld_conv,                  \* conv, the record
    ld_parsed,                \* the outcome of _parse_conversation(conv)
    ld_yielded,               \* the chats load() has yielded for it
    \* ---- the text functions of PrivacyService and TaggerService ----
    tx_service,               \* the arguments the services were constructed with
    tx_text,                  \* text
    tx_done,                  \* the functions that have been called on text
    tx_redacted,              \* the result of _redact_text(text)
    tx_findings,              \* the result of detect(text)
    tx_tags,                  \* the result of _extract_simple(text)
    \* ---- JSONExporter.export (exporters/json_exporter.py) ----
    js_pc,                    \* position inside export()
    js_exporter,              \* self.pretty, self.single_file
    js_output_path,           \* output_path
    js_chats,                 \* the chats argument of export()
    js_pos,                   \* the chats the for loop has handled
    js_files,                 \* the files that exist: path and content
    js_reloaded,              \* the chats a loader yields from a written file
    \* ---- ChatGPTLoader._traverse_tree, call by call ----
    w_pc,                     \* a call is to be made, the walk returned or raised
    w_mapping,                \* mapping
    w_root_id,                \* root_id, the node the first call is made on
    w_node_id,                \* node_id of the call to be made
    w_depth,                  \* the calls of _traverse_tree that are open
    w_messages,               \* the messages collected by the open calls
    \* ---- the processors of a chain, applied in order (cli.py lines 157-158) ----
    ch_processors,            \* processors, the services in the order of the chain
    ch_pos,                   \* the processors that have been applied
    ch_chat                   \* chat

expVars == <<chunk_size, max_chars, exp_pc, exp_chats, ci, mi, chunk_id,
             export_data, chunks, current_chunk_text, current_chunk_messages,
             current_length, out_file>>

procVars == <<p_input, p_chat, p_steps, p_last>>

treeVars == <<t_pc, t_mapping, t_root_id, t_messages>>

convVars == <<cv_pc, cv_source, options, input_file, total_conversations, data_pos,
              cv_chat, stats, processed_chats, exported, format, loader, exporter,
              input_read>>

callVars == <<call_pc, service, heap, call_arg, call_snapshot, call_result, call_error>>

mdVars == <<md_pc, md_chats, md_pos, directory, md_log>>

loadVars == <<ld_pc, ld_source, ld_conv, ld_parsed, ld_yielded>>

textVars == <<tx_service, tx_text, tx_done, tx_redacted, tx_findings, tx_tags>>

jsVars == <<js_pc, js_exporter, js_output_path, js_chats, js_pos, js_files, js_reloaded>>

walkVars == <<w_pc, w_mapping, w_root_id, w_node_id, w_depth, w_messages>>

chainVars == <<ch_processors, ch_pos, ch_chat>>

vars == <<expVars, procVars, treeVars, convVars, callVars, mdVars, loadVars, textVars,
          jsVars, walkVars, chainVars>>

\* a step of one component leaves the variables of the others alone
ExpOnly == UNCHANGED <<procVars, treeVars, convVars, callVars, mdVars,
    loadVars, textVars, jsVars, walkVars, chainVars>>
ProcOnly == UNCHANGED <<expVars, treeVars, convVars, callVars, mdVars,
    loadVars, textVars, jsVars, walkVars, chainVars>>
TreeOnly == UNCHANGED <<expVars, procVars, convVars, callVars, mdVars,
    loadVars, textVars, jsVars, walkVars, chainVars>>
ConvOnly == UNCHANGED <<expVars, procVars, treeVars, callVars, mdVars,
    loadVars, textVars, jsVars, walkVars, chainVars>>
CallOnly == UNCHANGED <<expVars, procVars, treeVars, convVars, mdVars,
    loadVars, textVars, jsVars, walkVars, chainVars>>
MdOnly == UNCHANGED <<expVars, procVars, treeVars, convVars, callVars,
    loadVars, textVars, jsVars, walkVars, chainVars>>
LoadOnly == UNCHANGED <<expVars, procVars, treeVars, convVars, callVars, mdVars,
    textVars, jsVars, walkVars, chainVars>>
TextOnly == UNCHANGED <<expVars, procVars, treeVars, convVars, callVars, mdVars,
    loadVars, jsVars, walkVars, chainVars>>
JsOnly == UNCHANGED <<expVars, procVars, treeVars, convVars, callVars, mdVars,
    loadVars, textVars, walkVars, chainVars>>
WalkOnly == UNCHANGED <<expVars, procVars, treeVars, convVars, callVars, mdVars,
    loadVars, textVars, jsVars, chainVars>>
ChainOnly == UNCHANGED <<expVars, procVars, treeVars, convVars, callVars, mdVars,
    loadVars, textVars, jsVars, walkVars>>

(***************************************************************************)
(* Bounds of the model.                                                    *)
(***************************************************************************)
MaxChats == 2
MaxTotalMsgs == 4
MaxProcMsgs == 2
MaxApplications == 2
MaxRecords == 2

(***************************************************************************)
(* Generic helpers on sequences.                                           *)
(***************************************************************************)
None == "None"

RECURSIVE Flatten(_)
Flatten(ss) == IF ss = <<>> THEN <<>> ELSE Head(ss) \o Flatten(Tail(ss))

RECURSIVE SumSeq(_)
SumSeq(ns) == IF ns = <<>> THEN 0 ELSE Head(ns) + SumSeq(Tail(ns))

\* sep.join(parts) of Python, on character sequences
RECURSIVE Join(_, _)
Join(sep, parts) ==
    IF parts = <<>> THEN <<>>
    ELSE IF Len(parts) = 1 THEN parts[1]
    ELSE parts[1] \o sep \o Join(sep, Tail(parts))

Digit(d) == <<"0", "1", "2", "3", "4", "5", "6", "7", "8", "9">>[d + 1]

\* str(n) for n >= 0: the decimal digits of n
RECURSIVE IntToStr(_)
IntToStr(n) == IF n < 10 THEN <<Digit(n)>>
               ELSE IntToStr(n \div 10) \o <<Digit(n % 10)>>

(***************************************************************************)
(* Characters and Python's str methods, on sequences of characters.        *)
(***************************************************************************)
LowerLetters == <<"a", "b", "c", "d", "e", "f", "g", "h", "i", "j", "k", "l", "m",
                  "n", "o", "p", "q", "r", "s", "t", "u", "v", "w", "x", "y", "z">>

UpperLetters == <<"A", "B", "C", "D", "E", "F", "G", "H", "I", "J", "K", "L", "M",
                  "N", "O", "P", "Q", "R", "S", "T", "U", "V", "W", "X", "Y", "Z">>

Range(f) == { f[k] : k \in DOMAIN f }

Lowers == Range(LowerLetters)
Uppers == Range(UpperLetters)
Letters == Lowers \cup Uppers
Digits == {"0", "1", "2", "3", "4", "5", "6", "7", "8", "9"}
\* \w of the re module (ASCII part)
WordChars == Letters \cup Digits \cup {"_"}
\* \s of the re module, and the characters str.strip() removes (ASCII part)
Whitespace == {" ", "\t", "\n", "\r", "\f"}

\* c.lower() and c.upper()
LowerChar(c) == IF c \in Uppers
                THEN LowerLetters[CHOOSE k \in 1..26 : UpperLetters[k] = c] ELSE c
UpperChar(c) == IF c \in Lowers
                THEN UpperLetters[CHOOSE k \in 1..26 : LowerLetters[k] = c] ELSE c

\* text.lower() and text.upper()
Lower(text) == [k \in 1..Len(text) |-> LowerChar(text[k])]
Upper(text) == [k \in 1..Len(text) |-> UpperChar(text[k])]

\* text.strip()
RECURSIVE LStrip(_)
LStrip(text) == IF text # <<>> /\ Head(text) \in Whitespace THEN LStrip(Tail(text))
                ELSE text
RECURSIVE RStrip(_)
RStrip(text) == IF text # <<>> /\ text[Len(text)] \in Whitespace
                THEN RStrip(SubSeq(text, 1, Len(text) - 1))
                ELSE text
Strip(text) == RStrip(LStrip(text))

\* text.split(sep) for a one-character separator: the list of the pieces
RECURSIVE SplitFrom(_, _, _, _)
SplitFrom(text, sep, k, piece) ==
    IF k > Len(text) THEN <<piece>>
    ELSE IF text[k] = sep THEN <<piece>> \o SplitFrom(text, sep, k + 1, <<>>)
    ELSE SplitFrom(text, sep, k + 1, Append(piece, text[k]))
Split(text, sep) == SplitFrom(text, sep, 1, <<>>)

(***************************************************************************)
(* The re module: patterns as trees, matched by backtracking.              *)
(* Ends(r, text, i) lists the positions at which a match of r that starts  *)
(* at position i can end, in the order the backtracking matcher tries      *)
(* them: the first entry is the match re finds.                            *)
(***************************************************************************)
In(S) == [t |-> "in", s |-> S]                    \* [...] and single characters
NotIn(S) == [t |-> "notin", s |-> S]              \* [^...]
Dot == [t |-> "notin", s |-> {"\n"}]              \* .
Cat(rs) == [t |-> "cat", a |-> rs]                \* r1 r2 ...
Alt(rs) == [t |-> "alt", a |-> rs]                \* r1|r2|...
Rep(r, lo, hi) == [t |-> "rep", r |-> r, lo |-> lo, hi |-> hi]  \* r{lo,hi}, greedy
Inf == -1                                         \* no upper limit of a repeat
Star(r) == Rep(r, 0, Inf)
Plus(r) == Rep(r, 1, Inf)
Opt(r) == Rep(r, 0, 1)
WordBoundary == [t |-> "wb"]                      \* \b
NotAhead(r) == [t |-> "nla", r |-> r]             \* (?!r)
LineStart == [t |-> "bol"]                        \* ^ under re.MULTILINE
LineEnd == [t |-> "eol"]                          \* $ under re.MULTILINE
\* a literal string, and a literal string under re.IGNORECASE
Lit(chars) == Cat([k \in 1..Len(chars) |-> In({chars[k]})])
LitI(chars) == Cat([k \in 1..Len(chars) |-> In({LowerChar(chars[k]), UpperChar(chars[k])})])

IsWordAt(text, i) == i >= 1 /\ i <= Len(text) /\ text[i] \in WordChars

RECURSIVE Ends(_, _, _)
RECURSIVE EndsCat(_, _, _)
RECURSIVE EndsAlt(_, _, _)
RECURSIVE EndsRep(_, _, _, _)
RECURSIVE EndsEach(_, _, _, _)

Ends(r, text, i) ==
    CASE r.t = "in" -> IF i <= Len(text) /\ text[i] \in r.s THEN <<i + 1>> ELSE <<>>
      [] r.t = "notin" -> IF i <= Len(text) /\ text[i] \notin r.s THEN <<i + 1>> ELSE <<>>
      [] r.t = "cat" -> EndsCat(r.a, text, i)
      [] r.t = "alt" -> EndsAlt(r.a, text, i)
      [] r.t = "rep" -> EndsRep(r, text, i, 0)
      [] r.t = "wb" -> IF IsWordAt(text, i - 1) # IsWordAt(text, i) THEN <<i>> ELSE <<>>
      [] r.t = "nla" -> IF Ends(r.r, text, i) = <<>> THEN <<i>> ELSE <<>>
      [] r.t = "bol" -> IF i = 1 \/ text[i - 1] = "\n" THEN <<i>> ELSE <<>>
      [] r.t = "eol" -> IF i = Len(text) + 1 \/ text[i] = "\n" THEN <<i>> ELSE <<>>

\* the ends of rs[1] rs[2] ... from i
EndsCat(rs, text, i) ==
    IF rs = <<>> THEN <<i>>
    ELSE EndsEach(Ends(Head(rs), text, i), Tail(rs), text, 1)

\* for each end js[k], k = from.., in order: the ends of the rest from there
EndsEach(js, rs, text, from) ==
    IF from > Len(js) THEN <<>>
    ELSE EndsCat(rs, text, js[from]) \o EndsEach(js, rs, text, from + 1)

EndsAlt(rs, text, i) ==
    IF rs = <<>> THEN <<>>
    ELSE Ends(Head(rs), text, i) \o EndsAlt(Tail(rs), text, i)

\* the number of characters from position i on that the class r accepts
RunLength(r, text, i) ==
    CHOOSE n \in 0..(Len(text) + 1 - i) :
        /\ \A k \in 0..(n - 1) : Ends(r, text, i + k) # <<>>
        /\ Ends(r, text, i + n) = <<>>

\* greedy: one more repetition is tried before stopping after n of them; a
\* repeated class of characters takes its run, the longest match first
EndsRep(r, text, i, n) ==
    IF n = 0 /\ r.r.t \in {"in", "notin"}
    THEN LET run == RunLength(r.r, text, i)
             most == IF r.hi = Inf \/ run < r.hi THEN run ELSE r.hi
         IN  [k \in 1..(most - r.lo + 1) |-> i + most + 1 - k]
    ELSE LET more == IF r.hi = Inf \/ n < r.hi
                     THEN SelectSeq(Ends(r.r, text, i), LAMBDA j : j > i)
                     ELSE <<>>
             deeper == Flatten([k \in 1..Len(more) |-> EndsRep(r, text, more[k], n + 1)])
         IN  deeper \o (IF n >= r.lo THEN <<i>> ELSE <<>>)

\* pattern.match(text): a match at the start of text
Matches(r, text) == Ends(r, text, 1) # <<>>

\* pattern.search from position i: <<start, end>> of the leftmost match, or <<>>
RECURSIVE SearchFrom(_, _, _)
SearchFrom(r, text, i) ==
    IF i > Len(text) + 1 THEN <<>>
    ELSE LET es == Ends(r, text, i)
         IN  IF es # <<>> THEN <<i, es[1]>> ELSE SearchFrom(r, text, i + 1)

\* pattern.sub(repl, text): every non-overlapping match, left to right
RECURSIVE SubFrom(_, _, _, _)
SubFrom(r, repl, text, i) ==
    LET m == SearchFrom(r, text, i)
    IN  IF m = <<>> THEN SubSeq(text, i, Len(text))
        ELSE IF m[2] > m[1]
             THEN SubSeq(text, i, m[1] - 1) \o repl \o SubFrom(r, repl, text, m[2])
             ELSE \* an empty match: the replacement, then one character is copied
                  SubSeq(text, i, m[1] - 1) \o repl
                      \o (IF m[1] <= Len(text)
                          THEN <<text[m[1]]>> \o SubFrom(r, repl, text, m[1] + 1)
                          ELSE <<>>)
Sub(r, repl, text) == SubFrom(r, repl, text, 1)

\* pattern.findall(text) for a pattern without groups: the matched strings
RECURSIVE FindAllFrom(_, _, _)
FindAllFrom(r, text, i) ==
    LET m == SearchFrom(r, text, i)
    IN  IF m = <<>> THEN <<>>
        ELSE <<SubSeq(text, m[1], m[2] - 1)>>
                 \o (IF m[2] > m[1] THEN FindAllFrom(r, text, m[2])
                     ELSE IF m[1] <= Len(text) THEN FindAllFrom(r, text, m[1] + 1)
                     ELSE <<>>)
FindAll(r, text) == FindAllFrom(r, text, 1)

(***************************************************************************)
(* models.py: roles.                                                       *)
(***************************************************************************)
MessageRole == {"user", "assistant", "system"}

\* msg.role.upper()
RoleUpper(role) ==
    CASE role = "user" -> <<"U", "S", "E", "R">>
      [] role = "assistant" -> <<"A", "S", "S", "I", "S", "T", "A", "N", "T">>
      [] role = "system" -> <<"S", "Y", "S", "T", "E", "M">>

(***************************************************************************)
(* processors/cleaner.py                                                   *)
(***************************************************************************)
\* BOILERPLATE_PATTERNS, compiled with re.IGNORECASE | re.MULTILINE
BOILERPLATE_PATTERNS ==
    << Cat(<<LineStart, LitI(<<"I", " ", "a", "m", " ", "a", " ", "l", "a", "r", "g", "e", " ", "l", "a", "n", "g", "u", "a", "g", "e", " ", "m", "o", "d", "e", "l">>), Star(Dot), LineEnd>>),
       Cat(<<LineStart, LitI(<<"I", "'", "m", " ", "a", "n", " ", "A", "I", " ", "l", "a", "n", "g", "u", "a", "g", "e", " ", "m", "o", "d", "e", "l">>), Star(Dot), LineEnd>>),
       Cat(<<LineStart, LitI(<<"A", "s", " ", "a", "n", " ", "A", "I">>), Opt(In({","})), Star(In(Whitespace)),
             LitI(<<"I">>), Star(Dot), LineEnd>>),
       Cat(<<LineStart, LitI(<<"I", " ", "d", "o", "n", "'", "t", " ", "h", "a", "v", "e", " ", "t", "h", "e", " ", "a", "b", "i", "l", "i", "t", "y", " ", "t", "o">>), Star(Dot), LineEnd>>),
       Cat(<<LineStart, LitI(<<"I", "'", "m", " ", "s", "o", "r", "r", "y">>), Opt(In({","})), Star(In(Whitespace)),
             LitI(<<"b", "u", "t", " ", "a", "s", " ", "a", "n", " ", "A", "I">>), Star(Dot), LineEnd>>),
       Cat(<<LineStart, LitI(<<"I", "'", "m", " ", "u", "n", "a", "b", "l", "e", " ", "t", "o">>), Star(Dot), LineEnd>>),
       Cat(<<LineStart, LitI(<<"A", "s", " ", "a", " ", "l", "a", "n", "g", "u", "a", "g", "e", " ", "m", "o", "d", "e", "l">>), Opt(In({","})),
             Star(In(Whitespace)), LitI(<<"I">>), Star(Dot), LineEnd>>) >>

\* HTML_TAG_PATTERN: <[^>]+>
HTML_TAG_PATTERN == Cat(<<In({"<"}), Plus(NotIn({">"})), In({">"})>>)

\* WHITESPACE_PATTERNS: (pattern, replacement), applied in this order
WHITESPACE_PATTERNS ==
    << <<Rep(In({"\n"}), 3, Inf), <<"\n", "\n">>>>,
       <<Rep(In({" "}), 2, Inf), <<" ">>>>,
       <<Plus(In({"\t"})), <<" ">>>> >>

\* CleanerService(): the defaults of __init__
CleanerDefaults ==
    [remove_boilerplate |-> TRUE, remove_html |-> TRUE,
     remove_system_messages |-> FALSE, normalize_whitespace |-> TRUE]

RECURSIVE SubAll(_, _, _)
SubAll(pairs, k, text) ==
    IF k > Len(pairs) THEN text
    ELSE SubAll(pairs, k + 1, Sub(pairs[k][1], pairs[k][2], text))

\* any(p.match(line.strip()) for p in self._boilerplate_patterns)
IsBoilerplate(line) ==
    \E k \in 1..Len(BOILERPLATE_PATTERNS) : Matches(BOILERPLATE_PATTERNS[k], Strip(line))

\* CleanerService._clean_text
_clean_text(cfg, text) ==
    IF text = <<>> THEN <<>>
    ELSE LET r1 == IF cfg.remove_html THEN Sub(HTML_TAG_PATTERN, <<>>, text) ELSE text
             r2 == IF cfg.normalize_whitespace THEN SubAll(WHITESPACE_PATTERNS, 1, r1)
                   ELSE r1
             r3 == IF cfg.remove_boilerplate
                   THEN Join(<<"\n">>, SelectSeq(Split(r2, "\n"),
                                              LAMBDA line : ~IsBoilerplate(line)))
                   ELSE r2
         IN  Strip(r3)

\* the loop body of CleanerService.process for one message: the list of the
\* messages it appends (none or one)
CleanMessage(cfg, msg) ==
    IF cfg.remove_system_messages /\ msg.role = "system" THEN <<>>
    ELSE LET cleaned_text == _clean_text(cfg, msg.text)
         IN  IF cleaned_text = <<>> \/ Strip(cleaned_text) = <<>> THEN <<>>
             ELSE << [id |-> msg.id, role |-> msg.role, text |-> cleaned_text,
                      timestamp |-> msg.timestamp, metadata |-> msg.metadata] >>

\* a cleaner that returns the kept messages newest first
CleanerProcess_NewestFirst(cfg, chat) ==
    LET kept == Flatten([k \in 1..Len(chat.messages) |-> CleanMessage(cfg, chat.messages[k])])
    IN  [chat EXCEPT !.messages = [k \in 1..Len(kept) |-> kept[Len(kept) + 1 - k]]]

\* CleanerService.process
CleanerProcess(cfg, chat) ==
    [chat EXCEPT !.messages =
        Flatten([k \in 1..Len(chat.messages) |-> CleanMessage(cfg, chat.messages[k])])]

(***************************************************************************)
(* processors/privacy.py                                                   *)
(***************************************************************************)
PiiTypes == <<"email", "phone", "ip_address", "credit_card", "ssn", "api_key", "jwt">>

\* the characters of a category name
PiiName(type) ==
    CASE type = "email" -> <<"e", "m", "a", "i", "l">>
      [] type = "phone" -> <<"p", "h", "o", "n", "e">>
      [] type = "ip_address" -> <<"i", "p", "_", "a", "d", "d", "r", "e", "s", "s">>
      [] type = "credit_card" -> <<"c", "r", "e", "d", "i", "t", "_", "c", "a", "r", "d">>
      [] type = "ssn" -> <<"s", "s", "n">>
      [] type = "api_key" -> <<"a", "p", "i", "_", "k", "e", "y">>
      [] type = "jwt" -> <<"j", "w", "t">>

D == In(Digits)
PhoneSep == Opt(In({"-", "."} \cup Whitespace))
Octet == Alt(<< Cat(<<Lit(<<"2", "5">>), In({"0", "1", "2", "3", "4", "5"})>>),
                Cat(<<Lit(<<"2">>), In({"0", "1", "2", "3", "4"}), D>>),
                Cat(<<Opt(In({"0", "1"})), D, Opt(D)>>) >>)
KeyChars == In(Letters \cup Digits \cup {"_", "-"})

\* PII_PATTERNS
PII_PATTERNS(type) ==
    CASE type = "email" ->
            Cat(<<WordBoundary,
                  Plus(In(Letters \cup Digits \cup {".", "_", "%", "+", "-"})),
                  In({"@"}),
                  Plus(In(Letters \cup Digits \cup {".", "-"})),
                  In({"."}),
                  Rep(In(Letters \cup {"|"}), 2, Inf),
                  WordBoundary>>)
      [] type = "phone" ->
            Alt(<< Cat(<<WordBoundary,
                         Opt(Cat(<<Opt(In({"+"})), In({"1"}), PhoneSep>>)),
                         Opt(In({"("})), Rep(D, 3, 3), Opt(In({")"})), PhoneSep,
                         Rep(D, 3, 3), PhoneSep, Rep(D, 4, 4), WordBoundary>>),
                   Cat(<<WordBoundary, Opt(In({"+"})), Rep(D, 1, 3), PhoneSep,
                         Opt(In({"("})), Rep(D, 2, 4), Opt(In({")"})), PhoneSep,
                         Rep(D, 3, 4), PhoneSep, Rep(D, 3, 4), WordBoundary>>) >>)
      [] type = "ip_address" ->
            Cat(<<WordBoundary, Rep(Cat(<<Octet, In({"."})>>), 3, 3), Octet,
                  WordBoundary>>)
      [] type = "credit_card" ->
            Cat(<<WordBoundary,
                  Alt(<< Cat(<<In({"4"}), Rep(D, 12, 12), Opt(Rep(D, 3, 3))>>),
                         Cat(<<In({"5"}), In({"1", "2", "3", "4", "5"}), Rep(D, 14, 14)>>),
                         Cat(<<In({"3"}), In({"4", "7"}), Rep(D, 13, 13)>>),
                         Cat(<<In({"6"}),
                               Alt(<<Lit(<<"0", "1", "1">>), Cat(<<In({"5"}), Rep(D, 2, 2)>>)>>),
                               Rep(D, 12, 12)>>) >>),
                  WordBoundary>>)
      [] type = "ssn" ->
            Cat(<<WordBoundary,
                  NotAhead(Alt(<<Lit(<<"0", "0", "0">>), Lit(<<"6", "6", "6">>),
                                 Cat(<<In({"9"}), Rep(D, 2, 2)>>)>>)),
                  Rep(D, 3, 3), Opt(In({"-"} \cup Whitespace)),
                  NotAhead(Lit(<<"0", "0">>)), Rep(D, 2, 2), Opt(In({"-"} \cup Whitespace)),
                  NotAhead(Lit(<<"0", "0", "0", "0">>)), Rep(D, 4, 4), WordBoundary>>)
      [] type = "api_key" ->  \* re.IGNORECASE
            Cat(<<WordBoundary,
                  Alt(<< LitI(<<"s", "k", "-">>), LitI(<<"p", "k", "_">>),
                         Cat(<<LitI(<<"a", "p", "i">>), Opt(In({"_", "-"})), LitI(<<"k", "e", "y">>),
                               Star(In({"=", ":"} \cup Whitespace))>>) >>),
                  Rep(KeyChars, 20, Inf), WordBoundary>>)
      [] type = "jwt" ->
            Cat(<<WordBoundary, Lit(<<"e", "y", "J">>), Star(KeyChars), In({"."}), Lit(<<"e", "y", "J">>),
                  Star(KeyChars), In({"."}), Star(KeyChars), WordBoundary>>)

\* DEFAULT_REPLACEMENT: "[REDACTED_{type}]"; a template is a sequence of
\* characters and of the replacement field "{type}"
TypeField == "{type}"
DEFAULT_REPLACEMENT == <<"[", "R", "E", "D", "A", "C", "T", "E", "D", "_">> \o <<TypeField>> \o <<"]">>

\* self.replacement_format.format(type=pii_type.upper())
FormatReplacement(template, type) ==
    Flatten([k \in 1..Len(template) |->
                IF template[k] = TypeField THEN Upper(PiiName(type))
                ELSE <<template[k]>>])

\* PrivacyService._redact_text, with the categories in the order the loop
\* over the set self.redact_types visits them
\* (`result = pattern.sub(...)` is computed before the next turn of the loop:
\* the test of Len(text), which is never negative, makes it so here)
RECURSIVE RedactIn(_, _, _, _)
RedactIn(order, k, template, text) ==
    IF k > Len(order) \/ Len(text) < 0 THEN text
    ELSE RedactIn(order, k + 1, template,
                  Sub(PII_PATTERNS(order[k]), FormatReplacement(template, order[k]), text))

_redact_text(order, template, text) ==
    IF text = <<>> THEN <<>> ELSE RedactIn(order, 1, template, text)

\* a redactor that leaves the title as it is
PrivacyProcess_TitleKept(order, template, chat) ==
    [chat EXCEPT
        !.messages = [k \in 1..Len(chat.messages) |->
                         [chat.messages[k] EXCEPT
                             !.text = _redact_text(order, template, chat.messages[k].text)]]]

\* PrivacyService.process
PrivacyProcess(order, template, chat) ==
    [chat EXCEPT
        !.messages = [k \in 1..Len(chat.messages) |->
                         [id |-> chat.messages[k].id,
                          role |-> chat.messages[k].role,
                          text |-> _redact_text(order, template, chat.messages[k].text),
                          timestamp |-> chat.messages[k].timestamp,
                          metadata |-> chat.messages[k].metadata]],
        !.title = _redact_text(order, template, chat.title)]

(***************************************************************************)
(* processors/tagger.py                                                    *)
(***************************************************************************)
\* TaggerService(): the defaults of __init__
TaggerDefaults ==
    [max_tags |-> 5, min_keyword_length |-> 3, use_title |-> TRUE,
     use_user_messages |-> TRUE, use_assistant_messages |-> FALSE]

\* r'\b[a-zA-Z]{3,}\b'
WORD_PATTERN == Cat(<<WordBoundary, Rep(In(Letters), 3, Inf), WordBoundary>>)

stop_words ==
    { <<"t", "h", "e">>, <<"a", "n", "d">>, <<"f", "o", "r">>, <<"a", "r", "e">>, <<"b", "u", "t">>, <<"n", "o", "t">>, <<"y", "o", "u">>, <<"a", "l", "l">>,
      <<"c", "a", "n">>, <<"h", "a", "d">>, <<"h", "e", "r">>, <<"w", "a", "s">>, <<"o", "n", "e">>, <<"o", "u", "r">>, <<"o", "u", "t">>, <<"h", "a", "s">>,
      <<"h", "a", "v", "e">>, <<"b", "e", "e", "n">>, <<"w", "e", "r", "e">>, <<"b", "e", "i", "n", "g">>, <<"t", "h", "e", "i", "r">>, <<"t", "h", "e", "r", "e">>, <<"t", "h", "i", "s">>,
      <<"t", "h", "a", "t">>, <<"w", "i", "t", "h">>, <<"w", "o", "u", "l", "d">>, <<"c", "o", "u", "l", "d">>, <<"s", "h", "o", "u", "l", "d">>, <<"w", "h", "a", "t">>, <<"f", "r", "o", "m">>,
      <<"t", "h", "e", "y">>, <<"w", "i", "l", "l">>, <<"w", "h", "e", "n">>, <<"w", "h", "e", "r", "e">>, <<"w", "h", "i", "c", "h">>, <<"w", "h", "i", "l", "e">>, <<"i", "n", "t", "o">>,
      <<"s", "o", "m", "e">>, <<"t", "h", "e", "n">>, <<"t", "h", "a", "n">>, <<"t", "h", "e", "m">>, <<"t", "h", "e", "s", "e">>, <<"y", "o", "u", "r">>, <<"j", "u", "s", "t">>,
      <<"l", "i", "k", "e">>, <<"m", "a", "k", "e">>, <<"k", "n", "o", "w">>, <<"t", "h", "i", "n", "k">>, <<"t", "a", "k", "e">>, <<"w", "a", "n", "t">>, <<"d", "o", "e", "s">>,
      <<"a", "b", "o", "u", "t">>, <<"a", "l", "s", "o">>, <<"m", "o", "r", "e">>, <<"o", "t", "h", "e", "r">>, <<"o", "n", "l", "y">>, <<"v", "e", "r", "y">>, <<"h", "e", "r", "e">> }

\* Counter(words): the distinct words in first-seen order, each with its count
RECURSIVE CounterOf(_, _)
CounterOf(words, seen) ==
    IF words = <<>> THEN seen
    ELSE LET w == Head(words)
         IN  IF \E k \in 1..Len(seen) : seen[k].word = w
             THEN CounterOf(Tail(words),
                            [k \in 1..Len(seen) |->
                                IF seen[k].word = w
                                THEN [word |-> w, count |-> seen[k].count + 1]
                                ELSE seen[k]])
             ELSE CounterOf(Tail(words), Append(seen, [word |-> w, count |-> 1]))

\* a tagger that ranks the last seen of the words with the highest count first
RECURSIVE MostCommon_LastSeen(_, _)
MostCommon_LastSeen(counter, n) ==
    IF n <= 0 \/ counter = <<>> THEN <<>>
    ELSE LET best == CHOOSE k \in 1..Len(counter) :
                         /\ \A l \in 1..Len(counter) : counter[l].count <= counter[k].count
                         /\ \A l \in (k + 1)..Len(counter) : counter[l].count < counter[k].count
             rest == [l \in 1..(Len(counter) - 1) |->
                         IF l < best THEN counter[l] ELSE counter[l + 1]]
         IN  <<counter[best]>> \o MostCommon_LastSeen(rest, n - 1)

\* Counter.most_common(n): by descending count, equal counts in first-seen
\* order (a stable sort); the n first of them
RECURSIVE MostCommon(_, _)
MostCommon(counter, n) ==
    IF n <= 0 \/ counter = <<>> THEN <<>>
    ELSE LET best == CHOOSE k \in 1..Len(counter) :
                         /\ \A l \in 1..Len(counter) : counter[l].count <= counter[k].count
                         /\ \A l \in 1..(k - 1) : counter[l].count < counter[k].count
             rest == [l \in 1..(Len(counter) - 1) |->
                         IF l < best THEN counter[l] ELSE counter[l + 1]]
         IN  <<counter[best]>> \o MostCommon(rest, n - 1)

\* TaggerService._extract_simple
_extract_simple(cfg, text) ==
    IF text = <<>> THEN <<>>
    ELSE LET words == FindAll(WORD_PATTERN, Lower(text))
             filtered_words == SelectSeq(words, LAMBDA w : w \notin stop_words)
             common == MostCommon(CounterOf(filtered_words, <<>>), cfg.max_tags)
         IN  [k \in 1..Len(common) |-> common[k].word]

\* len(cleaned.split()): the number of whitespace-separated words
RECURSIVE WordCount(_, _)
WordCount(text, k) ==
    IF k > Len(text) THEN 0
    ELSE (IF text[k] \notin Whitespace /\ (k = 1 \/ text[k - 1] \in Whitespace)
          THEN 1 ELSE 0) + WordCount(text, k + 1)

\* _extract_with_rake lines 118-136: the filter loop over the ranked phrases
RECURSIVE RakeFilter(_, _, _)
RakeFilter(cfg, phrases, tags) ==
    IF phrases = <<>> THEN tags
    ELSE LET cleaned == Strip(Lower(Head(phrases)))
         IN  IF Len(cleaned) < cfg.min_keyword_length
             THEN RakeFilter(cfg, Tail(phrases), tags)
             ELSE IF WordCount(cleaned, 1) > 3
             THEN RakeFilter(cfg, Tail(phrases), tags)
             ELSE IF Len(tags) + 1 >= cfg.max_tags
             THEN Append(tags, cleaned)
             ELSE RakeFilter(cfg, Tail(phrases), Append(tags, cleaned))

\* What the rake_nltk library answers for a text: its ranked phrases, or an
\* exception.  The library is not part of the repository: any answer is allowed.
\* NoRake stands for self._rake = None (the library is not installed).
NoRake == [has |-> FALSE, raises |-> FALSE, phrases |-> <<>>]
RakePhrases == { <<"a", "b">>, <<"d", "a", "t", "a", " ", "s", "c", "i", "e", "n", "c", "e">>, <<"o", "n", "e", " ", "t", "w", "o", " ", "t", "h", "r", "e", "e", " ", "f", "o", "u", "r">>, <<"M", "e", "m", "o", "r", "y", " ">> }
RakeAnswers ==
    { [has |-> TRUE, raises |-> TRUE, phrases |-> <<>>] }
        \cup { [has |-> TRUE, raises |-> FALSE, phrases |-> ps] :
                 ps \in {<<>>} \cup { <<p>> : p \in RakePhrases }
                           \cup { <<p, q>> : p \in RakePhrases, q \in RakePhrases } }

\* TaggerService._extract_with_rake
_extract_with_rake(cfg, rake, text) ==
    IF text = <<>> \/ ~rake.has THEN <<>>
    ELSE IF rake.raises THEN _extract_simple(cfg, text)
    ELSE RakeFilter(cfg, rake.phrases, <<>>)

\* TaggerService.process lines 76-88: the corpus
TaggerCorpus(cfg, chat) ==
    LET picked == SelectSeq(chat.messages,
                    LAMBDA m : \/ (m.role = "user" /\ cfg.use_user_messages)
                               \/ (m.role = "assistant" /\ cfg.use_assistant_messages))
        text_parts == (IF cfg.use_title /\ chat.title # <<>> THEN <<chat.title>> ELSE <<>>)
                          \o [k \in 1..Len(picked) |-> picked[k].text]
    IN  Join(<<" ">>, text_parts)

\* a tagger that appends the extracted tags to the prior ones
TaggerProcess_Merge(cfg, rake, chat) ==
    LET full_text == TaggerCorpus(cfg, chat)
        tags == IF rake.has THEN _extract_with_rake(cfg, rake, full_text)
                ELSE _extract_simple(cfg, full_text)
    IN  [chat EXCEPT !.tags = chat.tags \o tags]

\* TaggerService.process; rake is NoRake or the library's answer
TaggerProcess(cfg, rake, chat) ==
    LET full_text == TaggerCorpus(cfg, chat)
        tags == IF rake.has THEN _extract_with_rake(cfg, rake, full_text)
                ELSE _extract_simple(cfg, full_text)
    IN  [chat EXCEPT !.tags = tags]

(***************************************************************************)
(* Decoded JSON (the value of json.load): a value is a record of a type    *)
(* tag t and a payload v; a dict keeps its pairs in the order of the file. *)
(***************************************************************************)
JNull == [t |-> "null", v |-> <<>>]
JBool(b) == [t |-> "bool", v |-> b]
JInt(n) == [t |-> "int", v |-> n]
JStr(chars) == [t |-> "str", v |-> chars]
JList(items) == [t |-> "list", v |-> items]
JDict(pairs) == [t |-> "dict", v |-> pairs]
\* a number too large for the integers of the model, by its decimal digits
JBig(digits) == [t |-> "big", v |-> digits]
KV(key, value) == [k |-> key, v |-> value]

\* the outcome of an expression that raises
Raised == [t |-> "raise", v |-> <<>>]

\* bool(x) of Python
Truthy(x) ==
    CASE x.t = "null" -> FALSE
      [] x.t = "bool" -> x.v
      [] x.t = "int" -> x.v # 0
      [] x.t = "big" -> TRUE
      [] x.t \in {"str", "list", "dict"} -> x.v # <<>>
      [] OTHER -> FALSE

\* x == 'chars' of Python
IsStr(x, chars) == x.t = "str" /\ x.v = chars

HasKey(d, key) == \E i \in 1..Len(d.v) : d.v[i].k = key

\* d.get(key, default); AttributeError when d is not a dict
Get(d, key, default) ==
    IF d.t # "dict" THEN Raised
    ELSE IF HasKey(d, key) THEN d.v[CHOOSE i \in 1..Len(d.v) : d.v[i].k = key].v
    ELSE default

\* datetime.fromtimestamp(x) raises OverflowError, which the handlers of
\* (ValueError, TypeError, OSError) do not catch, for a number outside the
\* range of time_t: 2^63 and more, 20 digits and more
TimestampOverflows(x) == x.t = "big" /\ Len(x.v) >= 20

\* datetime.fromtimestamp(x) inside try/except (ValueError, TypeError, OSError)
\* with timestamp = None before it: a number of seconds (True counts as 1)
\* gives a datetime; a year past 9999 is a ValueError, a number past the
\* range of the C library an OSError, a value that is no number a TypeError
FromTimestamp(x) ==
    CASE x.t = "int" -> <<"ts", x.v>>
      [] x.t = "bool" -> <<"ts", 1>>
      [] OTHER -> None

\* datetime.fromisoformat(x.replace('Z', '+00:00')) inside
\* try/except (ValueError, TypeError): a str gives a datetime or ValueError
\* (None); any other truthy value has no replace(), AttributeError
IsoDates == { <<"2", "0", "2", "4", "-", "0", "1", "-", "0", "1">>, <<"2", "0", "2", "4", "-", "0", "1", "-", "0", "2", "T", "0", "3", ":", "0", "4", ":", "0", "5", "Z">> }
FromIsoformat(x) ==
    IF x.t # "str" THEN Raised
    ELSE IF x.v \in IsoDates THEN <<"iso", x.v>>
    ELSE None

(***************************************************************************)
(* loaders/chatgpt_loader.py                                               *)
(***************************************************************************)
\* the outcome of a piece of code that builds a list of messages: the list,
\* or raised when an exception leaves it
Walk(raised, messages) == [raised |-> raised, messages |-> messages]

\* _parse_message lines 174-182: the text of content['parts']
TextOfParts(parts) ==
    LET items == CASE parts.t = "list" -> parts.v
                   [] parts.t = "str" -> [k \in 1..Len(parts.v) |-> JStr(<<parts.v[k]>>)]
                   [] parts.t = "dict" -> [k \in 1..Len(parts.v) |-> JStr(parts.v[k].k)]
                   [] OTHER -> <<>>
        picked == SelectSeq(items, LAMBDA part :
                      \/ part.t = "str"
                      \/ part.t = "dict" /\ Truthy(Get(part, <<"t", "e", "x", "t">>, JNull)))
        text_parts == [k \in 1..Len(picked) |->
                          IF picked[k].t = "str" THEN picked[k]
                          ELSE Get(picked[k], <<"t", "e", "x", "t">>, JNull)]
    IN  IF parts.t \notin {"list", "str", "dict"} THEN Raised    \* not iterable
        ELSE IF \E k \in 1..Len(text_parts) : text_parts[k].t # "str"
             THEN Raised                                        \* join: TypeError
        ELSE JStr(Strip(Join(<<"\n">>, [k \in 1..Len(text_parts) |-> text_parts[k].v])))

\* _parse_message lines 152-210, the body of its try: the list of the message
\* it returns (empty for None), raised when an exception leaves the body
ParseMessageBody(msg_data) ==
    LET author == Get(msg_data, <<"a", "u", "t", "h", "o", "r">>, JDict(<<>>))
        role_str == Get(author, <<"r", "o", "l", "e">>, JStr(<<>>))
        role == CASE IsStr(role_str, <<"u", "s", "e", "r">>) -> "user"
                  [] IsStr(role_str, <<"a", "s", "s", "i", "s", "t", "a", "n", "t">>) -> "assistant"
                  [] IsStr(role_str, <<"s", "y", "s", "t", "e", "m">>) -> "system"
                  [] OTHER -> "unknown"
        content == Get(msg_data, <<"c", "o", "n", "t", "e", "n", "t">>, JDict(<<>>))
        content_type == Get(content, <<"c", "o", "n", "t", "e", "n", "t", "_", "t", "y", "p", "e">>, JStr(<<>>))
        text == TextOfParts(Get(content, <<"p", "a", "r", "t", "s">>, JList(<<>>)))
        metadata == Get(msg_data, <<"m", "e", "t", "a", "d", "a", "t", "a">>, JDict(<<>>))
        create_time == Get(msg_data, <<"c", "r", "e", "a", "t", "e", "_", "t", "i", "m", "e">>, JNull)
        model_slug == Get(metadata, <<"m", "o", "d", "e", "l", "_", "s", "l", "u", "g">>, JNull)
    IN  IF msg_data.t # "dict" \/ author.t # "dict" THEN Walk(TRUE, <<>>)
        ELSE IF role = "unknown" THEN Walk(FALSE, <<>>)
        ELSE IF content.t # "dict" THEN Walk(TRUE, <<>>)
        ELSE IF ~(IsStr(content_type, <<"t", "e", "x", "t">>)
                    \/ IsStr(content_type, <<"u", "s", "e", "r", "_", "e", "d", "i", "t", "a", "b", "l", "e", "_", "c", "o", "n", "t", "e", "x", "t">>)) THEN Walk(FALSE, <<>>)
        ELSE IF text.t = "raise" THEN Walk(TRUE, <<>>)
        ELSE IF text.v = <<>> THEN Walk(FALSE, <<>>)
        ELSE IF metadata.t # "dict" THEN Walk(TRUE, <<>>)
        ELSE IF Truthy(Get(metadata, <<"i", "s", "_", "v", "i", "s", "u", "a", "l", "l", "y", "_", "h", "i", "d", "d", "e", "n", "_", "f", "r", "o", "m", "_", "c", "o", "n", "v", "e", "r", "s", "a", "t", "i", "o", "n">>, JNull))
             THEN Walk(FALSE, <<>>)
        ELSE IF Truthy(create_time) /\ TimestampOverflows(create_time) THEN Walk(TRUE, <<>>)
        ELSE Walk(FALSE,
                  << [id |-> Get(msg_data, <<"i", "d">>, JStr(<<>>)).v,
                      role |-> role,
                      text |-> text.v,
                      timestamp |-> IF Truthy(create_time) THEN FromTimestamp(create_time)
                                    ELSE None,
                      metadata |-> IF Truthy(model_slug) THEN [model |-> model_slug.v]
                                   ELSE None] >>)

\* _parse_message: `except Exception: return None` around the body
_parse_message(msg_data) ==
    IF ParseMessageBody(msg_data).raised THEN <<>>
    ELSE ParseMessageBody(msg_data).messages

\* the index in mapping of the first dict node whose parent is None, or one
\* past the end when there is none
FirstRootless(mapping) ==
    IF \E i \in 1..Len(mapping.v) : mapping.v[i].v.t = "dict"
                                       /\ Get(mapping.v[i].v, <<"p", "a", "r", "e", "n", "t">>, JNull).t = "null"
    THEN CHOOSE i \in 1..Len(mapping.v) :
             /\ mapping.v[i].v.t = "dict"
             /\ Get(mapping.v[i].v, <<"p", "a", "r", "e", "n", "t">>, JNull).t = "null"
             /\ \A j \in 1..(i - 1) : ~(mapping.v[j].v.t = "dict"
                                          /\ Get(mapping.v[j].v, <<"p", "a", "r", "e", "n", "t">>, JNull).t = "null")
    ELSE Len(mapping.v) + 1

\* _find_root: the id of the first node with no parent, in the order of the
\* mapping, or None; the loop raises at a node that has no get()
_find_root(mapping) ==
    IF mapping.t # "dict" THEN Raised                        \* no items()
    ELSE IF \E j \in 1..(FirstRootless(mapping) - 1) :
                j <= Len(mapping.v) /\ mapping.v[j].v.t # "dict"
         THEN Raised                                         \* no get()
    ELSE IF FirstRootless(mapping) > Len(mapping.v) THEN JNull
    ELSE JStr(mapping.v[FirstRootless(mapping)].k)
\* _traverse_tree.  visited holds the ids of the calls that are open: the walk
\* from a node that is reached again repeats itself without end, and the
\* recursion ends in RecursionError.
RECURSIVE _traverse_tree(_, _, _)
_traverse_tree(mapping, node_id, visited) ==
    IF node_id.t \in {"list", "dict"} THEN Walk(TRUE, <<>>)        \* unhashable key
    ELSE
    LET node == IF node_id.t = "str" THEN Get(mapping, node_id.v, JNull) ELSE JNull
        msg_data == Get(node, <<"m", "e", "s", "s", "a", "g", "e">>, JNull)
        messages == IF Truthy(msg_data) THEN _parse_message(msg_data) ELSE <<>>
        children == Get(node, <<"c", "h", "i", "l", "d", "r", "e", "n">>, JList(<<>>))
        first == IF children.t = "list" THEN children.v[1] ELSE JStr(<<children.v[1]>>)
        rest == _traverse_tree(mapping, first, visited \cup {node_id.v})
    IN  IF ~Truthy(node) THEN Walk(FALSE, <<>>)
        ELSE IF node.t # "dict" THEN Walk(TRUE, <<>>)              \* no get()
        ELSE IF node_id.v \in visited THEN Walk(TRUE, <<>>)        \* RecursionError
        ELSE IF ~Truthy(children) THEN Walk(FALSE, messages)
        ELSE IF children.t \notin {"list", "str"} THEN Walk(TRUE, <<>>)   \* children[0]
        ELSE IF rest.raised THEN rest
        ELSE Walk(FALSE, messages \o rest.messages)

\* The outcome of _parse_conversation for one record: the chats it gives to
\* load() (none for None), or escaped when an exception leaves it.  The handler
\* of `except Exception` formats conv.get(...) and so raises again when conv
\* itself is what has no get().
Parsed(chats) == [escaped |-> FALSE, chats |-> chats]
Escaped == [escaped |-> TRUE, chats |-> <<>>]

Untitled == <<"U", "n", "t", "i", "t", "l", "e", "d", " ", "C", "o", "n", "v", "e", "r", "s", "a", "t", "i", "o", "n">>

ChatGPT_parse_conversation(conv, source_file) ==
    LET mapping == Get(conv, <<"m", "a", "p", "p", "i", "n", "g">>, JDict(<<>>))
        root_id == _find_root(mapping)
        walk == _traverse_tree(mapping, root_id, {})
        create_time == Get(conv, <<"c", "r", "e", "a", "t", "e", "_", "t", "i", "m", "e">>, JNull)
        update_time == Get(conv, <<"u", "p", "d", "a", "t", "e", "_", "t", "i", "m", "e">>, JNull)
        title == Get(conv, <<"t", "i", "t", "l", "e">>, JNull)
    IN  IF conv.t # "dict" THEN Escaped
        ELSE IF root_id.t = "raise" THEN Parsed(<<>>)
        ELSE IF ~Truthy(root_id) THEN Parsed(<<>>)
        ELSE IF walk.raised THEN Parsed(<<>>)
        ELSE IF Truthy(create_time) /\ TimestampOverflows(create_time) THEN Parsed(<<>>)
        ELSE IF Truthy(update_time) /\ TimestampOverflows(update_time) THEN Parsed(<<>>)
        ELSE Parsed(<< [id |-> Get(conv, <<"i", "d">>, Get(conv, <<"c", "o", "n", "v", "e", "r", "s", "a", "t", "i", "o", "n", "_", "i", "d">>, JStr(<<>>))).v,
                        source |-> "chatgpt",
                        source_file |-> source_file,
                        title |-> IF Truthy(title) THEN title.v ELSE Untitled,
                        created_at |-> IF Truthy(create_time) THEN FromTimestamp(create_time)
                                       ELSE None,
                        updated_at |-> IF Truthy(update_time) THEN FromTimestamp(update_time)
                                       ELSE None,
                        messages |-> walk.messages,
                        tags |-> <<>>,
                        token_count |-> None] >>)

(***************************************************************************)
(* loaders/claude_loader.py                                                *)
(***************************************************************************)
\* `for x in value`: the items of the loop, or Raised when value is not iterable
IterItems(value) ==
    CASE value.t = "list" -> value
      [] value.t = "str" -> JList([k \in 1..Len(value.v) |-> JStr(<<value.v[k]>>)])
      [] value.t = "dict" -> JList([k \in 1..Len(value.v) |-> JStr(value.v[k].k)])
      [] OTHER -> Raised

\* _parse_messages lines 108-116: the text of msg
ClaudeText(msg) ==
    LET text == Get(msg, <<"t", "e", "x", "t">>, JStr(<<>>))
        content_list == IterItems(Get(msg, <<"c", "o", "n", "t", "e", "n", "t">>, JList(<<>>)))
        IsTextItem(item) == item.t = "dict" /\ IsStr(Get(item, <<"t", "y", "p", "e">>, JNull), <<"t", "e", "x", "t">>)
    IN  IF Truthy(text) THEN text
        ELSE IF content_list.t = "raise" THEN Raised
        ELSE IF \E k \in 1..Len(content_list.v) : IsTextItem(content_list.v[k])
             THEN Get(content_list.v[CHOOSE k \in 1..Len(content_list.v) :
                          /\ IsTextItem(content_list.v[k])
                          /\ \A j \in 1..(k - 1) : ~IsTextItem(content_list.v[j])],
                      <<"t", "e", "x", "t">>, JStr(<<>>))
        ELSE text

\* a loop body that skips a message whose sender it does not know, as the
\* tree loader does
ClaudeMessage_SkipUnknown(msg) ==
    LET text == ClaudeText(msg)
        sender == Get(msg, <<"s", "e", "n", "d", "e", "r">>, JStr(<<>>))
        created_at == Get(msg, <<"c", "r", "e", "a", "t", "e", "d", "_", "a", "t">>, JNull)
        timestamp == IF Truthy(created_at) THEN FromIsoformat(created_at) ELSE None
    IN  IF msg.t # "dict" \/ text.t = "raise" THEN Walk(TRUE, <<>>)
        ELSE IF ~Truthy(text) THEN Walk(FALSE, <<>>)
        ELSE IF text.t # "str" THEN Walk(TRUE, <<>>)               \* no strip()
        ELSE IF Strip(text.v) = <<>> THEN Walk(FALSE, <<>>)
        ELSE IF Truthy(created_at) /\ created_at.t # "str" THEN Walk(TRUE, <<>>)
        ELSE IF ~(IsStr(sender, <<"h", "u", "m", "a", "n">>)
                    \/ IsStr(sender, <<"a", "s", "s", "i", "s", "t", "a", "n", "t">>))
             THEN Walk(FALSE, <<>>)
        ELSE Walk(FALSE,
                  << [id |-> Get(msg, <<"u", "u", "i", "d">>, JStr(<<>>)).v,
                      role |-> CASE IsStr(sender, <<"h", "u", "m", "a", "n">>) -> "user"
                                 [] IsStr(sender, <<"a", "s", "s", "i", "s", "t", "a", "n", "t">>) -> "assistant"
                                 [] OTHER -> "system",
                      text |-> Strip(text.v),
                      timestamp |-> timestamp,
                      metadata |-> <<>>] >>)                       \* metadata={}

\* the body of the loop of _parse_messages for one msg: the messages it
\* appends (none or one), raised when an exception leaves it
ClaudeMessage(msg) ==
    LET text == ClaudeText(msg)
        sender == Get(msg, <<"s", "e", "n", "d", "e", "r">>, JStr(<<>>))
        created_at == Get(msg, <<"c", "r", "e", "a", "t", "e", "d", "_", "a", "t">>, JNull)
        timestamp == IF Truthy(created_at) THEN FromIsoformat(created_at) ELSE None
    IN  IF msg.t # "dict" \/ text.t = "raise" THEN Walk(TRUE, <<>>)
        ELSE IF ~Truthy(text) THEN Walk(FALSE, <<>>)
        ELSE IF text.t # "str" THEN Walk(TRUE, <<>>)               \* no strip()
        ELSE IF Strip(text.v) = <<>> THEN Walk(FALSE, <<>>)
        ELSE IF Truthy(created_at) /\ created_at.t # "str" THEN Walk(TRUE, <<>>)
        ELSE Walk(FALSE,
                  << [id |-> Get(msg, <<"u", "u", "i", "d">>, JStr(<<>>)).v,
                      role |-> CASE IsStr(sender, <<"h", "u", "m", "a", "n">>) -> "user"
                                 [] IsStr(sender, <<"a", "s", "s", "i", "s", "t", "a", "n", "t">>) -> "assistant"
                                 [] OTHER -> "system",
                      text |-> Strip(text.v),
                      timestamp |-> timestamp,
                      metadata |-> <<>>] >>)                       \* metadata={}

\* _parse_messages: no try inside it, the first exception ends it
_parse_messages(chat_messages) ==
    LET items == IterItems(chat_messages)
        each == [k \in 1..Len(items.v) |-> ClaudeMessage(items.v[k])]
    IN  IF items.t = "raise" THEN Walk(TRUE, <<>>)
        ELSE IF \E k \in 1..Len(each) : each[k].raised THEN Walk(TRUE, <<>>)
        ELSE Walk(FALSE, Flatten([k \in 1..Len(each) |-> each[k].messages]))

Claude_parse_conversation(conv, source_file) ==
    LET parsed == _parse_messages(Get(conv, <<"c", "h", "a", "t", "_", "m", "e", "s", "s", "a", "g", "e", "s">>, JList(<<>>)))
        created_at == Get(conv, <<"c", "r", "e", "a", "t", "e", "d", "_", "a", "t">>, JNull)
        updated_at == Get(conv, <<"u", "p", "d", "a", "t", "e", "d", "_", "a", "t">>, JNull)
        name == Get(conv, <<"n", "a", "m", "e">>, JNull)
    IN  IF conv.t # "dict" THEN Escaped
        ELSE IF parsed.raised THEN Parsed(<<>>)
        ELSE IF Truthy(created_at) /\ created_at.t # "str" THEN Parsed(<<>>)
        ELSE IF Truthy(updated_at) /\ updated_at.t # "str" THEN Parsed(<<>>)
        ELSE Parsed(<< [id |-> Get(conv, <<"u", "u", "i", "d">>, JStr(<<>>)).v,
                        source |-> "claude",
                        source_file |-> source_file,
                        title |-> IF Truthy(name) THEN name.v ELSE Untitled,
                        created_at |-> IF Truthy(created_at) THEN FromIsoformat(created_at)
                                       ELSE None,
                        updated_at |-> IF Truthy(updated_at) THEN FromIsoformat(updated_at)
                                       ELSE None,
                        messages |-> parsed.messages,
                        tags |-> <<>>,
                        token_count |-> None] >>)

\* loader._parse_conversation of the loader get_loader gives for a platform
ParseConversation(platform, conv, source_file) ==
    IF platform = "chatgpt" THEN ChatGPT_parse_conversation(conv, source_file)
    ELSE Claude_parse_conversation(conv, source_file)

\* load() lines 56-57 (both loaders): if chat and chat.messages: yield chat
YieldNonEmpty(parsed) ==
    IF parsed.escaped THEN parsed
    ELSE Parsed(SelectSeq(parsed.chats, LAMBDA c : c.messages # <<>>))

\* load() lines 54-57 for one record: what the generator yields
LoadRecord(platform, conv, source_file) ==
    YieldNonEmpty(ParseConversation(platform, conv, source_file))

\* no mapping is being walked, no convert run is under way
TreeIdle == t_pc = "idle" /\ t_mapping = JNull /\ t_root_id = JNull /\ t_messages = <<>>

NoStats == [total_conversations |-> 0, total_messages |-> 0, skipped_empty |-> 0]

ConvIdle ==
    /\ cv_pc = "idle" /\ cv_source = None /\ options = None /\ input_file = JNull
    /\ total_conversations = 0 /\ data_pos = 0 /\ cv_chat = <<>> /\ stats = NoStats
    /\ processed_chats = <<>> /\ exported = <<>>
    /\ format = <<>> /\ loader = None /\ exporter = None /\ input_read = FALSE

\* no chat is passing through processors
ProcIdle == p_input = None /\ p_chat = None /\ p_steps = 0 /\ p_last = "idle"

\* no processor is under construction, no notes are being exported
CallIdle ==
    /\ call_pc = "idle" /\ service = None /\ heap = <<>> /\ call_arg = 0
    /\ call_snapshot = None /\ call_result = 0 /\ call_error = None

MdIdle ==
    /\ md_pc = "idle" /\ md_chats = <<>> /\ md_pos = 0 /\ directory = {}
    /\ md_log = <<>>

\* no record is being loaded, no text function is being called, no JSON is
\* being exported
LoadIdle ==
    /\ ld_pc = "idle" /\ ld_source = None /\ ld_conv = JNull
    /\ ld_parsed = Parsed(<<>>) /\ ld_yielded = <<>>

TextIdle ==
    /\ tx_service = None /\ tx_text = <<>> /\ tx_done = {} /\ tx_redacted = <<>>
    /\ tx_findings = <<>> /\ tx_tags = <<>>

JsIdle ==
    /\ js_pc = "idle" /\ js_exporter = None /\ js_output_path = <<>>
    /\ js_chats = <<>> /\ js_pos = 0 /\ js_files = {} /\ js_reloaded = <<>>

\* no tree is being walked call by call
WalkIdle ==
    /\ w_pc = "idle" /\ w_mapping = JNull /\ w_root_id = JNull /\ w_node_id = JNull
    /\ w_depth = 0
    /\ w_messages = <<>>

ChainIdle == ch_processors = <<>> /\ ch_pos = 0 /\ ch_chat = None

(***************************************************************************)
(* exporters/aspendos_exporter.py                                          *)
(***************************************************************************)
CHARS_PER_TOKEN == 4

\* f"[{msg.role.upper()}]: {msg.text}"
MsgText(msg) == <<"[">> \o RoleUpper(msg.role) \o <<"]", ":", " ">> \o msg.text

\* f"chunk_{chunk_id}"
ChunkName(n) == <<"c", "h", "u", "n", "k", "_">> \o IntToStr(n)

_build_chunk(cid, conversation_id, text, message_ids, tags) ==
    [chunk_id |-> ChunkName(cid),
     conversation_id |-> conversation_id,
     text |-> text,
     message_ids |-> message_ids,
     tags |-> tags,
     token_estimate |-> Len(text) \div CHARS_PER_TOKEN]

_estimate_tokens(chat) ==
    SumSeq([k \in 1..Len(chat.messages) |-> Len(chat.messages[k].text)])
        \div CHARS_PER_TOKEN

_chat_to_aspendos(chat) ==
    [id |-> chat.id,
     source |-> chat.source,
     title |-> chat.title,
     created_at |-> chat.created_at,
     tags |-> chat.tags,
     message_count |-> Len(chat.messages),
     estimated_tokens |-> _estimate_tokens(chat)]

\* mutant: the chunk number restarts with every chat (start_id forgotten)
SealedChunk_PerChatNumbering(chat) ==
    _build_chunk(Len(chunks), chat.id,
                 Join(<<"\n", "\n">>, current_chunk_text),
                 [k \in 1..Len(current_chunk_messages) |->
                      current_chunk_messages[k].id],
                 chat.tags)

\* The chunk sealed from the current accumulators of _create_chunks.
SealedChunk(chat) ==
    _build_chunk(chunk_id + Len(chunks), chat.id,
                 Join(<<"\n", "\n">>, current_chunk_text),
                 [k \in 1..Len(current_chunk_messages) |->
                      current_chunk_messages[k].id],
                 chat.tags)

\* mutant: the guard on an empty current chunk is missing
MustSeal_NoEmptyGuard(msg_length) ==
    current_length + msg_length > max_chars

\* mutant: a message that fills the budget exactly already seals the chunk
MustSeal_AtBudget(msg_length) ==
    current_length + msg_length >= max_chars /\ current_chunk_text # <<>>

\* line 140: the test that seals the current chunk before msg is added
MustSeal(msg_length) ==
    current_length + msg_length > max_chars /\ current_chunk_text # <<>>

\* ---- inputs of export(): chats of (role, text) messages, ids by position
ChunkSizes == {3, 5, 7}

ExportMsgKinds ==
    { [role |-> "user", text |-> <<"h">>],
      [role |-> "user", text |-> <<"h", "i">>],
      [role |-> "assistant", text |-> <<"l", "o", "n", "g", "t", "e", "x", "t">>] }

MsgSeqsOfLen(S, n) == [1..n -> S]

MsgSeqsUpTo(S, n) == UNION { MsgSeqsOfLen(S, k) : k \in 0..n }

\* message j of chat i gets the id "c<i>m<j>"
MkMsgId(i, j) == <<"c">> \o IntToStr(i) \o <<"m">> \o IntToStr(j)

MkChatId(i) == <<"c">> \o IntToStr(i)

MkChat(i, kinds) ==
    [id |-> MkChatId(i),
     source |-> "chatgpt",
     source_file |-> "conversations.json",
     title |-> <<"T">>,
     created_at |-> None,
     updated_at |-> None,
     messages |-> [j \in 1..Len(kinds) |->
                      [id |-> MkMsgId(i, j),
                       role |-> kinds[j].role,
                       text |-> kinds[j].text,
                       timestamp |-> None,
                       metadata |-> None]],
     tags |-> <<>>,
     token_count |-> None]

\* all lists of k kind-sequences with at most n messages in total
RECURSIVE KindLists(_, _)
KindLists(k, n) ==
    IF k = 0 THEN {<<>>}
    ELSE UNION { { <<s>> \o rest : rest \in KindLists(k - 1, n - Len(s)) } :
                 s \in MsgSeqsUpTo(ExportMsgKinds, n) }

ExportInputs ==
    UNION { { [i \in 1..k |-> MkChat(i, ks[i])] : ks \in KindLists(k, MaxTotalMsgs) } :
            k \in 0..MaxChats }

ExpInit ==
    /\ chunk_size \in ChunkSizes
    /\ max_chars = chunk_size * CHARS_PER_TOKEN
    /\ exp_pc = "ready"
    /\ exp_chats = <<>>
    /\ ci = 0
    /\ mi = 0
    /\ chunk_id = 0
    /\ export_data = [conversations |-> <<>>, chunks |-> <<>>]
    /\ chunks = <<>>
    /\ current_chunk_text = <<>>
    /\ current_chunk_messages = <<>>
    /\ current_length = 0
    /\ out_file = None

\* the exporter is not in use
ExpIdle ==
    /\ chunk_size = 0 /\ max_chars = 0 /\ exp_pc = "unused" /\ exp_chats = <<>>
    /\ ci = 0 /\ mi = 0 /\ chunk_id = 0
    /\ export_data = [conversations |-> <<>>, chunks |-> <<>>]
    /\ chunks = <<>> /\ current_chunk_text = <<>> /\ current_chunk_messages = <<>>
    /\ current_length = 0 /\ out_file = None

\* export() is called: lines 59-73
Export_Begin ==
    /\ exp_pc = "ready"
    /\ \E cs \in ExportInputs : exp_chats' = cs
    /\ export_data' = [conversations |-> <<>>, chunks |-> <<>>]
    /\ chunk_id' = 0
    /\ ci' = 1
    /\ exp_pc' = "chat"
    /\ UNCHANGED <<chunk_size, max_chars, mi, chunks, current_chunk_text,
                   current_chunk_messages, current_length, out_file>>
    /\ ExpOnly

\* export() lines 75-81: the next chat, its summary record, and the entry of
\* _create_chunks (lines 130-133); or the end of the loop
Export_NextChat ==
    /\ exp_pc = "chat"
    /\ IF ci <= Len(exp_chats)
       THEN /\ export_data' = [export_data EXCEPT !.conversations =
                                  Append(@, _chat_to_aspendos(exp_chats[ci]))]
            /\ chunks' = <<>>
            /\ current_chunk_text' = <<>>
            /\ current_chunk_messages' = <<>>
            /\ current_length' = 0
            /\ mi' = 1
            /\ exp_pc' = "msgs"
       ELSE /\ exp_pc' = "write"
            /\ UNCHANGED <<export_data, chunks, current_chunk_text,
                           current_chunk_messages, current_length, mi>>
    /\ UNCHANGED <<chunk_size, max_chars, exp_chats, ci, chunk_id, out_file>>
    /\ ExpOnly

\* _create_chunks() lines 135-155: one iteration of the message loop
CreateChunks_Message ==
    /\ exp_pc = "msgs"
    /\ mi <= Len(exp_chats[ci].messages)
    /\ LET chat == exp_chats[ci]
           msg == chat.messages[mi]
           msg_text == MsgText(msg)
           msg_length == Len(msg_text)
           seal == MustSeal(msg_length)
       IN  /\ chunks' = IF seal THEN Append(chunks, SealedChunk(chat)) ELSE chunks
           /\ current_chunk_text' =
                  Append(IF seal THEN <<>> ELSE current_chunk_text, msg_text)
           /\ current_chunk_messages' =
                  Append(IF seal THEN <<>> ELSE current_chunk_messages, msg)
           /\ current_length' = (IF seal THEN 0 ELSE current_length) + msg_length
    /\ mi' = mi + 1
    /\ UNCHANGED <<chunk_size, max_chars, exp_pc, exp_chats, ci, chunk_id,
                   export_data, out_file>>
    /\ ExpOnly

\* _create_chunks() lines 157-167: the last chunk, and the return
CreateChunks_Return ==
    /\ exp_pc = "msgs"
    /\ mi > Len(exp_chats[ci].messages)
    /\ chunks' = IF current_chunk_text # <<>>
                 THEN Append(chunks, SealedChunk(exp_chats[ci]))
                 ELSE chunks
    /\ exp_pc' = "returned"
    /\ UNCHANGED <<chunk_size, max_chars, exp_chats, ci, mi, chunk_id, export_data,
                   current_chunk_text, current_chunk_messages, current_length,
                   out_file>>
    /\ ExpOnly

\* export() lines 82-83: the chunks of the chat join the output, the counter moves
Export_Extend ==
    /\ exp_pc = "returned"
    /\ export_data' = [export_data EXCEPT !.chunks = @ \o chunks]
    /\ chunk_id' = chunk_id + Len(chunks)
    /\ ci' = ci + 1
    /\ exp_pc' = "chat"
    /\ UNCHANGED <<chunk_size, max_chars, exp_chats, mi, chunks,
                   current_chunk_text, current_chunk_messages, current_length,
                   out_file>>
    /\ ExpOnly

\* export() lines 85-87: the document is written
Export_Write ==
    /\ exp_pc = "write"
    /\ out_file' = export_data
    /\ exp_pc' = "done"
    /\ UNCHANGED <<chunk_size, max_chars, exp_chats, ci, mi, chunk_id, export_data,
                   chunks, current_chunk_text, current_chunk_messages,
                   current_length>>
    /\ ExpOnly

ExpNext ==
    \/ Export_Begin
    \/ Export_NextChat
    \/ CreateChunks_Message
    \/ CreateChunks_Return
    \/ Export_Extend
    \/ Export_Write

\* an exporter on its own
ExportStart == ExpInit /\ ProcIdle /\ TreeIdle /\ ConvIdle /\ CallIdle /\ MdIdle /\ LoadIdle /\ TextIdle /\ JsIdle /\ WalkIdle /\ ChainIdle

SpecExport == ExportStart /\ [][ExpNext]_vars

(***************************************************************************)
(* A chat passing through processors: cli.py lines 157-158,                *)
(*     for processor in processors: chat = processor.process(chat)         *)
(* with processors of any configuration, in any order.                     *)
(***************************************************************************)
ProcMsgKinds ==
    { [role |-> "user", text |-> <<"a", "@", "b", ".", "c", "o">>],
      [role |-> "assistant", text |-> <<"<", "b", ">">>],
      [role |-> "assistant", text |-> <<"I", "'", "m", " ", "u", "n", "a", "b", "l", "e", " ", "t", "o">>],
      [role |-> "system", text |-> <<"a", " ", " ", "b">>] }

ProcTitles == { <<"M", "a", "i", "l", " ", "a", "@", "b", ".", "c", "o">> }

\* a chat as a loader yields it: non-empty texts, a timestamp on every message
ProcChat(title, kinds) ==
    [MkChat(1, kinds) EXCEPT
        !.title = title,
        !.messages = [j \in 1..Len(kinds) |->
                         [MkChat(1, kinds).messages[j] EXCEPT !.timestamp = <<"t", j>>]]]

ProcChats ==
    { ProcChat(title, kinds) :
        title \in ProcTitles, kinds \in MsgSeqsUpTo(ProcMsgKinds, MaxProcMsgs) }

CleanerConfigs ==
    { CleanerDefaults,
      [CleanerDefaults EXCEPT !.remove_system_messages = TRUE],
      [CleanerDefaults EXCEPT !.remove_html = FALSE, !.normalize_whitespace = FALSE],
      [CleanerDefaults EXCEPT !.remove_boilerplate = FALSE] }

\* PrivacyService.__init__ line 78: redact_types or set(PII_PATTERNS.keys())
RedactTypesOf(redact_types) ==
    IF redact_types = {} THEN Range(PiiTypes) ELSE redact_types

\* the orders in which a loop over the set self.redact_types can visit it (the
\* order of a set of strings changes from run to run); for the full set, the
\* order of PII_PATTERNS and its reverse stand for all of them
Reverse(seq) == [k \in 1..Len(seq) |-> seq[Len(seq) + 1 - k]]
IterationOrders(types) ==
    IF types = Range(PiiTypes) THEN {PiiTypes, Reverse(PiiTypes)}
    ELSE { order \in [1..Cardinality(types) -> types] : Range(order) = types }

RedactTypeChoices == { {}, {"email"}, {"phone", "ssn"} }
ReplacementFormats == { DEFAULT_REPLACEMENT, <<>> }

TaggerConfigs ==
    { TaggerDefaults,
      [max_tags |-> 1, min_keyword_length |-> 3, use_title |-> FALSE,
       use_user_messages |-> TRUE, use_assistant_messages |-> TRUE],
      [TaggerDefaults EXCEPT !.max_tags = 0] }

ProcRakeAnswers ==
    { [has |-> TRUE, raises |-> TRUE, phrases |-> <<>>],
      [has |-> TRUE, raises |-> FALSE, phrases |-> << <<"a", "b">>, <<"M", "e", "m", "o", "r", "y", " ">> >>] }

ProcInit ==
    /\ p_input \in ProcChats
    /\ p_chat = p_input
    /\ p_steps = 0
    /\ p_last = "none"

Cleaner_Process ==
    /\ p_last # "idle"
    /\ p_steps < MaxApplications
    /\ \E cfg \in CleanerConfigs : p_chat' = CleanerProcess(cfg, p_chat)
    /\ p_steps' = p_steps + 1
    /\ p_last' = "cleaner"
    /\ UNCHANGED p_input
    /\ ProcOnly

Privacy_Process ==
    /\ p_last # "idle"
    /\ p_steps < MaxApplications
    /\ \E redact_types \in RedactTypeChoices, replacement_format \in ReplacementFormats :
           \E order \in IterationOrders(RedactTypesOf(redact_types)) :
               p_chat' = PrivacyProcess(order, replacement_format, p_chat)
    /\ p_steps' = p_steps + 1
    /\ p_last' = "privacy"
    /\ UNCHANGED p_input
    /\ ProcOnly

Tagger_Process ==
    /\ p_last # "idle"
    /\ p_steps < MaxApplications
    /\ \E cfg \in TaggerConfigs, rake \in {NoRake} \cup ProcRakeAnswers :
           p_chat' = TaggerProcess(cfg, rake, p_chat)
    /\ p_steps' = p_steps + 1
    /\ p_last' = "tagger"
    /\ UNCHANGED p_input
    /\ ProcOnly

ProcNext ==
    \/ Cleaner_Process
    \/ Privacy_Process
    \/ Tagger_Process

\* processors on their own
ProcStart == ProcInit /\ ExpIdle /\ TreeIdle /\ ConvIdle /\ CallIdle /\ MdIdle /\ LoadIdle /\ TextIdle /\ JsIdle /\ WalkIdle /\ ChainIdle

SpecProc == ProcStart /\ [][ProcNext]_vars

(***************************************************************************)
(* The tree reconstruction of ChatGPTLoader on a family of mappings: up to *)
(* three nodes, keyed "A", "" and "B" in this order; a node has a parent   *)
(* or none, one of the lists of ChildLists as children ("Z" is the id of   *)
(* no node), and no message, a message that _parse_message accepts or one  *)
(* it rejects.                                                             *)
(***************************************************************************)
NodeIds == << <<"A">>, <<>>, <<"B">> >>

ChildLists ==
    << <<>>, << <<"A">> >>, << <<>> >>, << <<"B">> >>, << <<"Z">> >>, << <<"B">>, <<"A">> >> >>

MessageKinds == {"absent", "accepted", "rejected"}

\* a message of node id that _parse_message accepts (user) or rejects (tool)
TreeMessage(id, role) ==
    JDict(<< KV(<<"i", "d">>, JStr(<<"m">> \o id)),
             KV(<<"a", "u", "t", "h", "o", "r">>, JDict(<< KV(<<"r", "o", "l", "e">>, JStr(role)) >>)),
             KV(<<"c", "o", "n", "t", "e", "n", "t">>, JDict(<< KV(<<"c", "o", "n", "t", "e", "n", "t", "_", "t", "y", "p", "e">>, JStr(<<"t", "e", "x", "t">>)),
                                     KV(<<"p", "a", "r", "t", "s">>, JList(<< JStr(<<"t", "e", "x", "t", " ", "o", "f", " ">> \o id) >>)) >>)) >>)

TreeNode(id, shape) ==
    JDict((IF shape.parent THEN << KV(<<"p", "a", "r", "e", "n", "t">>, JStr(<<"P">>)) >> ELSE <<>>)
          \o << KV(<<"c", "h", "i", "l", "d", "r", "e", "n">>,
                   JList([k \in 1..Len(ChildLists[shape.children]) |->
                             JStr(ChildLists[shape.children][k])])) >>
          \o (CASE shape.message = "absent" -> <<>>
                [] shape.message = "accepted" -> << KV(<<"m", "e", "s", "s", "a", "g", "e">>, TreeMessage(id, <<"u", "s", "e", "r">>)) >>
                [] shape.message = "rejected" -> << KV(<<"m", "e", "s", "s", "a", "g", "e">>, TreeMessage(id, <<"t", "o", "o", "l">>)) >>))

NodeShapes == [parent : BOOLEAN, children : 1..Len(ChildLists), message : MessageKinds]

\* the sub-lists of NodeIds, in the order of NodeIds
KeyLists == { SelectSeq(NodeIds, LAMBDA id : id \in keys) : keys \in SUBSET Range(NodeIds) }

TreeInit ==
    /\ t_pc = "find_root"
    /\ \E keys \in KeyLists :
           \E shapes \in [1..Len(keys) -> NodeShapes] :
               t_mapping = JDict([k \in 1..Len(keys) |-> KV(keys[k], TreeNode(keys[k], shapes[k]))])
    /\ t_root_id = JNull
    /\ t_messages = <<>>

\* _parse_conversation lines 71-73
Tree_FindRoot ==
    /\ t_pc = "find_root"
    /\ t_root_id' = _find_root(t_mapping)
    /\ t_pc' = IF t_root_id'.t = "raise" \/ ~Truthy(t_root_id') THEN "skipped" ELSE "traverse"
    /\ UNCHANGED <<t_mapping, t_messages>>
    /\ TreeOnly

\* _parse_conversation line 76
Tree_Traverse ==
    /\ t_pc = "traverse"
    /\ LET walk == _traverse_tree(t_mapping, t_root_id, {})
       IN  /\ t_messages' = walk.messages
           /\ t_pc' = IF walk.raised THEN "skipped" ELSE "traversed"
    /\ UNCHANGED <<t_mapping, t_root_id>>
    /\ TreeOnly

TreeNext ==
    \/ Tree_FindRoot
    \/ Tree_Traverse

\* the tree reconstruction on its own
TreeStart == TreeInit /\ ExpIdle /\ ProcIdle /\ ConvIdle /\ CallIdle /\ MdIdle /\ LoadIdle /\ TextIdle /\ JsIdle /\ WalkIdle /\ ChainIdle

SpecTree == TreeStart /\ [][TreeNext]_vars

(***************************************************************************)
(* cli.py: convert, with either loader.  The input file is undecodable or  *)
(* holds a JSON value; the records of an array come from the samples       *)
(* below: well-formed conversations, conversations that a loader or the    *)
(* cleaner leaves without messages, and malformed ones.                    *)
(***************************************************************************)
Undecodable == [t |-> "undecodable", v |-> <<>>]

GptMessage(id, role, text) ==
    JDict(<< KV(<<"i", "d">>, JStr(id)),
             KV(<<"a", "u", "t", "h", "o", "r">>, JDict(<< KV(<<"r", "o", "l", "e">>, JStr(role)) >>)),
             KV(<<"c", "o", "n", "t", "e", "n", "t">>, JDict(<< KV(<<"c", "o", "n", "t", "e", "n", "t", "_", "t", "y", "p", "e">>, JStr(<<"t", "e", "x", "t">>)),
                                     KV(<<"p", "a", "r", "t", "s">>, JList(<< JStr(text) >>)) >>)) >>)

GptNode(parent, children, message) ==
    JDict(<< KV(<<"p", "a", "r", "e", "n", "t">>, parent),
             KV(<<"c", "h", "i", "l", "d", "r", "e", "n">>, JList([k \in 1..Len(children) |-> JStr(children[k])])),
             KV(<<"m", "e", "s", "s", "a", "g", "e">>, message) >>)

GptRecord(id, nodes) ==
    JDict(<< KV(<<"i", "d">>, JStr(id)), KV(<<"t", "i", "t", "l", "e">>, JStr(<<"C", "h", "a", "t">>)), KV(<<"m", "a", "p", "p", "i", "n", "g">>, JDict(nodes)) >>)

NotAMapping == JList(<< JInt(42) >>)

ChatGPTRecords ==
    << \* two messages; the cleaner drops the second, the redactor rewrites the first
       GptRecord(<<"g", "1">>,
           << KV(<<"A">>, GptNode(JNull, << <<"B">> >>, GptMessage(<<"m", "1">>, <<"u", "s", "e", "r">>, <<"a", "@", "b", ".", "c", "o">>))),
              KV(<<"B">>, GptNode(JStr(<<"A">>), <<>>,
                               GptMessage(<<"m", "2">>, <<"a", "s", "s", "i", "s", "t", "a", "n", "t">>, <<"I", "'", "m", " ", "u", "n", "a", "b", "l", "e", " ", "t", "o">>))) >>),
       \* one message, which the cleaner empties
       GptRecord(<<"g", "2">>,
           << KV(<<"A">>, GptNode(JNull, <<>>, GptMessage(<<"m", "1">>, <<"a", "s", "s", "i", "s", "t", "a", "n", "t">>, <<"<", "b", ">">>))) >>),
       \* no message is accepted
       GptRecord(<<"g", "3">>,
           << KV(<<"A">>, GptNode(JNull, <<>>, GptMessage(<<"m", "1">>, <<"t", "o", "o", "l">>, <<"h", "i">>))) >>),
       \* the second message has an author that is not a mapping
       GptRecord(<<"g", "4">>,
           << KV(<<"A">>, GptNode(JNull, << <<"B">> >>, GptMessage(<<"m", "1">>, <<"u", "s", "e", "r">>, <<"h", "i">>))),
              KV(<<"B">>, GptNode(JStr(<<"A">>), <<>>,
                               JDict(<< KV(<<"i", "d">>, JStr(<<"m", "2">>)),
                                        KV(<<"a", "u", "t", "h", "o", "r">>, JStr(<<"u", "s", "e", "r">>)) >>))) >>),
       \* the children of the root lead back to it
       GptRecord(<<"g", "5">>,
           << KV(<<"A">>, GptNode(JNull, << <<"A">> >>, GptMessage(<<"m", "1">>, <<"u", "s", "e", "r">>, <<"h", "i">>))) >>),
       NotAMapping >>

ClaudeMsg(uuid, sender, text) ==
    JDict(<< KV(<<"u", "u", "i", "d">>, JStr(uuid)), KV(<<"s", "e", "n", "d", "e", "r">>, JStr(sender)), KV(<<"t", "e", "x", "t">>, text) >>)

ClaudeRecord(uuid, chat_messages) ==
    JDict(<< KV(<<"u", "u", "i", "d">>, JStr(uuid)), KV(<<"n", "a", "m", "e">>, JStr(<<"C", "h", "a", "t">>)),
             KV(<<"c", "h", "a", "t", "_", "m", "e", "s", "s", "a", "g", "e", "s">>, JList(chat_messages)) >>)

ClaudeRecords ==
    << ClaudeRecord(<<"k", "1">>, << ClaudeMsg(<<"m", "1">>, <<"h", "u", "m", "a", "n">>, JStr(<<"a", "@", "b", ".", "c", "o">>)),
                              ClaudeMsg(<<"m", "2">>, <<"a", "s", "s", "i", "s", "t", "a", "n", "t">>, JStr(<<"I", "'", "m", " ", "u", "n", "a", "b", "l", "e", " ", "t", "o">>)) >>),
       ClaudeRecord(<<"k", "2">>, << ClaudeMsg(<<"m", "1">>, <<"a", "s", "s", "i", "s", "t", "a", "n", "t">>, JStr(<<"<", "b", ">">>)) >>),
       \* no message has text
       ClaudeRecord(<<"k", "3">>, << ClaudeMsg(<<"m", "1">>, <<"h", "u", "m", "a", "n">>, JStr(<<" ", " ">>)) >>),
       \* the text of the second message is a number
       ClaudeRecord(<<"k", "4">>, << ClaudeMsg(<<"m", "1">>, <<"h", "u", "m", "a", "n">>, JStr(<<"h", "i">>)),
                              ClaudeMsg(<<"m", "2">>, <<"a", "s", "s", "i", "s", "t", "a", "n", "t">>, JInt(5)) >>),
       \* the second message is not a mapping
       ClaudeRecord(<<"k", "5">>, << ClaudeMsg(<<"m", "1">>, <<"h", "u", "m", "a", "n">>, JStr(<<"h", "i">>)), JStr(<<"x">>) >>),
       NotAMapping >>

RecordsOf(src) == IF src = "chatgpt" THEN ChatGPTRecords ELSE ClaudeRecords

\* the array of the sample records picked
InputArray(src, picks) == JList([k \in 1..Len(picks) |-> RecordsOf(src)[picks[k]]])

\* len(data), TypeError for a value that has no length
HasLen(data) == data.t \in {"list", "str", "dict"}

\* cli.py line 161: if not chat.messages
SkipEmpty_Never(c) == FALSE

SkipEmpty(c) == c.messages = <<>>

\* what rake_nltk answers in a run where it is installed
ConvertRakeAnswers ==
    { [has |-> TRUE, raises |-> TRUE, phrases |-> <<>>],
      [has |-> TRUE, raises |-> FALSE, phrases |-> << <<"d", "a", "t", "a", " ", "s", "c", "i", "e", "n", "c", "e">> >>] }

\* models.py: the values of SourcePlatform
SourcePlatform == {"chatgpt", "claude", "gemini"}

\* loaders/__init__.py get_loader: the class of the loader it returns, or the
\* ValueError it raises
get_loader(source) ==
    CASE source = "claude" -> "ClaudeLoader"
      [] source = "chatgpt" -> "ChatGPTLoader"
      [] OTHER -> "ValueError"

\* an exporter factory that falls back to the notes format
get_exporter_Default(fmt) ==
    IF Lower(fmt) = <<"j", "s", "o", "n">> THEN "JSONExporter" ELSE "MarkdownExporter"

\* exporters/__init__.py get_exporter: exporters.get(format.lower())
get_exporter(fmt) ==
    CASE Lower(fmt) = <<"m", "a", "r", "k", "d", "o", "w", "n">> -> "MarkdownExporter"
      [] Lower(fmt) = <<"m", "d">> -> "MarkdownExporter"
      [] Lower(fmt) = <<"j", "s", "o", "n">> -> "JSONExporter"
      [] Lower(fmt) = <<"a", "s", "p", "e", "n", "d", "o", "s">> -> "AspendosExporter"
      [] OTHER -> "ValueError"

\* the values of --source and --format a caller of convert can pass; the
\* command line admits chatgpt, claude and markdown, json, aspendos only
Sources == {"chatgpt", "claude", "gemini", "bard"}
Formats == { <<"m", "a", "r", "k", "d", "o", "w", "n">>, <<"x", "m", "l">> }

\* count_conversations (both loaders): json.load and len; Raised for a file
\* that cannot be decoded and for a value that has no length
count_conversations_Lenient(data) ==
    IF data.t = "undecodable" \/ ~HasLen(data) THEN JInt(0) ELSE JInt(Len(data.v))

count_conversations(data) ==
    IF data.t = "undecodable" \/ ~HasLen(data) THEN Raised ELSE JInt(Len(data.v))

ConvInit ==
    /\ cv_pc = "start"
    /\ cv_source \in Sources
    /\ format \in Formats
    /\ loader = None
    /\ exporter = None
    /\ input_read = FALSE
    /\ options \in { o \in [clean : BOOLEAN, redact_pii : BOOLEAN, extract_tags : BOOLEAN,
                            has_rake : BOOLEAN] : o.has_rake => o.extract_tags }
    /\ \/ input_file = Undecodable
       \/ input_file = JNull
       \/ \E n \in 0..MaxRecords :
              \E picks \in [1..n -> 1..Len(RecordsOf(cv_source))] :
                  input_file = InputArray(cv_source, picks)
    /\ total_conversations = 0
    /\ data_pos = 0
    /\ cv_chat = <<>>
    /\ stats = NoStats
    /\ processed_chats = <<>>
    /\ exported = <<>>

\* lines 103-109: SourcePlatform(source.value) and get_loader
Convert_GetLoader ==
    /\ cv_pc = "start"
    /\ IF cv_source \notin SourcePlatform \/ get_loader(cv_source) = "ValueError"
       THEN cv_pc' = "exit1" /\ UNCHANGED loader
       ELSE cv_pc' = "exporter" /\ loader' = get_loader(cv_source)
    /\ UNCHANGED <<cv_source, options, input_file, total_conversations, data_pos,
                   cv_chat, stats, processed_chats, exported, format, exporter,
                   input_read>>
    /\ ConvOnly

\* lines 111-128: the processors (their constructors take no argument here
\* and do not raise), then get_exporter
Convert_GetExporter ==
    /\ cv_pc = "exporter"
    /\ IF get_exporter(format) = "ValueError"
       THEN cv_pc' = "exit1" /\ UNCHANGED exporter
       ELSE cv_pc' = "count" /\ exporter' = get_exporter(format)
    /\ UNCHANGED <<cv_source, options, input_file, total_conversations, data_pos,
                   cv_chat, stats, processed_chats, exported, format, loader,
                   input_read>>
    /\ ConvOnly

\* lines 130-136: loader.count_conversations, json.load and len
Convert_Count ==
    /\ cv_pc = "count"
    /\ input_read' = TRUE
    /\ IF count_conversations(input_file).t = "raise"
       THEN cv_pc' = "exit1" /\ UNCHANGED total_conversations
       ELSE cv_pc' = "load" /\ total_conversations' = count_conversations(input_file).v
    /\ UNCHANGED <<cv_source, options, input_file, data_pos, cv_chat, stats,
                   processed_chats, exported, format, loader, exporter>>
    /\ ConvOnly

\* line 153 and load() lines 54-57: the generator takes the next record; it
\* yields its chat, goes on to the record after it, or lets an exception out,
\* which nothing in convert catches
Load_Record ==
    /\ cv_pc = "load"
    /\ input_file.t = "list"
    /\ data_pos < Len(input_file.v)
    /\ data_pos' = data_pos + 1
    /\ \E loaded \in {LoadRecord(cv_source, input_file.v[data_pos + 1], "conversations.json")} :
           IF loaded.escaped THEN cv_pc' = "crashed" /\ UNCHANGED cv_chat
           ELSE IF loaded.chats # <<>> THEN cv_pc' = "body" /\ cv_chat' = loaded.chats
           ELSE UNCHANGED <<cv_pc, cv_chat>>
    /\ UNCHANGED <<cv_source, options, input_file, total_conversations, stats,
                   processed_chats, exported, format, loader, exporter, input_read>>
    /\ ConvOnly

\* the generator is exhausted: the loop of line 153 ends.  load() lines 51-54
\* decode the file again and loop over data: on a file that cannot be decoded
\* or a value that is no array the exception leaves convert
Load_Return ==
    /\ cv_pc = "load"
    /\ input_file.t = "list" => data_pos = Len(input_file.v)
    /\ cv_pc' = IF input_file.t = "list" THEN "export" ELSE "crashed"
    /\ UNCHANGED <<cv_source, options, input_file, total_conversations, data_pos,
                   cv_chat, stats, processed_chats, exported, format, loader, exporter,
                   input_read>>
    /\ ConvOnly

\* a loop that counts the chats it collects only
UpdateStats_CollectedOnly(counters, chat) ==
    IF SkipEmpty(chat)
    THEN [counters EXCEPT !.skipped_empty = @ + 1]
    ELSE [counters EXCEPT !.total_conversations = @ + 1,
                          !.total_messages = @ + Len(chat.messages)]

\* lines 154, 162 and 166: the counters after the turn of the loop for chat
UpdateStats(counters, chat) ==
    IF SkipEmpty(chat)
    THEN [counters EXCEPT !.total_conversations = @ + 1, !.skipped_empty = @ + 1]
    ELSE [counters EXCEPT !.total_conversations = @ + 1,
                          !.total_messages = @ + Len(chat.messages)]

\* lines 154-168: the body of the loop, with the processors of lines 111-121
Convert_Body ==
    /\ cv_pc = "body"
    /\ \E order \in IterationOrders(Range(PiiTypes)),
          rake \in (IF options.has_rake THEN ConvertRakeAnswers ELSE {NoRake}) :
         \E cleaned \in {IF options.clean THEN CleanerProcess(CleanerDefaults, cv_chat[1])
                         ELSE cv_chat[1]} :
         \E redacted \in {IF options.redact_pii
                          THEN PrivacyProcess(order, DEFAULT_REPLACEMENT, cleaned)
                          ELSE cleaned} :
         \E tagged \in {IF options.extract_tags
                        THEN TaggerProcess(TaggerDefaults, rake, redacted)
                        ELSE redacted} :
               /\ cv_chat' = <<tagged>>
               /\ stats' = UpdateStats(stats, tagged)
               /\ IF SkipEmpty(tagged)
                  THEN UNCHANGED processed_chats
                  ELSE processed_chats' = Append(processed_chats, tagged)
    /\ cv_pc' = "load"
    /\ UNCHANGED <<cv_source, options, input_file, total_conversations, data_pos, exported,
                   format, loader, exporter, input_read>>
    /\ ConvOnly

\* lines 173-178: exporter.export(processed_chats, output), which returns or
\* raises (the output cannot be written)
Convert_Export ==
    /\ cv_pc = "export"
    /\ exported' = <<processed_chats>>
    /\ cv_pc' \in {"done", "exit1"}
    /\ UNCHANGED <<cv_source, options, input_file, total_conversations, data_pos,
                   cv_chat, stats, processed_chats, format, loader, exporter, input_read>>
    /\ ConvOnly

ConvNext ==
    \/ Convert_GetLoader
    \/ Convert_GetExporter
    \/ Convert_Count
    \/ Load_Record
    \/ Load_Return
    \/ Convert_Body
    \/ Convert_Export

\* a run of convert
ConvStart == ConvInit /\ ExpIdle /\ ProcIdle /\ TreeIdle /\ CallIdle /\ MdIdle /\ LoadIdle /\ TextIdle /\ JsIdle /\ WalkIdle /\ ChainIdle

SpecConvert == ConvStart /\ [][ConvNext]_vars

(***************************************************************************)
(* One processor on its own: it is constructed with arguments, then        *)
(* process() is called on a chat and once more on the chat it returned.    *)
(* Chats are objects: heap holds the value of each by reference.           *)
(***************************************************************************)
MaxCallMsgs == 2

CallMsgKinds ==
    { [role |-> "user", text |-> <<"<", "i", ">", "a", " ", "\t", "\n", "\n", "\n", "b", "<", "/", "i", ">">>],
      [role |-> "user", text |-> <<"c", "o", "n", "t", "a", "c", "t", " ", "m", "e", " ", "a", "t", " ", "a", "@", "b", ".", "c", "o", "m">>],
      [role |-> "assistant", text |-> <<"a", "@", "b", ".", "c", "o", " ", "1", "2", "3", "-", "4", "5", "-", "6", "7", "8", "9">>],
      [role |-> "system", text |-> <<"<", "b", ">">>] }

CallChats ==
    { [ProcChat(<<"M", "a", "i", "l", " ", "a", "@", "b", ".", "c", "o">>, kinds) EXCEPT !.tags = tags] :
        kinds \in MsgSeqsUpTo(CallMsgKinds, MaxCallMsgs), tags \in {<<>>, << <<"o", "l", "d">> >>} }

\* a replacement field that format(type=...) is given no value for
KindField == "{kind}"

\* self.replacement_format.format(type=...) line 134: KeyError for a field
\* other than {type}
FormatRaises(template) == \E k \in 1..Len(template) : template[k] = KindField

\* _redact_text: line 134 is reached for a text that is not empty
RedactRaises(order, template, text) ==
    text # <<>> /\ order # <<>> /\ FormatRaises(template)

\* PrivacyService.process: an exception leaves it
PrivacyProcessRaises(order, template, chat) ==
    \/ \E k \in 1..Len(chat.messages) : RedactRaises(order, template, chat.messages[k].text)
    \/ RedactRaises(order, template, chat.title)

\* PrivacyService.__init__ lines 82-84: ValueError
PrivacyInitRaises(redact_types) == RedactTypesOf(redact_types) \ Range(PiiTypes) # {}

NoService ==
    [kind |-> "none", cleaner |-> CleanerDefaults, redact_types |-> {}, order |-> <<>>,
     replacement_format |-> <<>>, tagger |-> TaggerDefaults, rake |-> NoRake]

CleanerServices ==
    { [NoService EXCEPT !.kind = "cleaner", !.cleaner = cfg] :
        cfg \in [remove_boilerplate : BOOLEAN, remove_html : BOOLEAN,
                 remove_system_messages : BOOLEAN, normalize_whitespace : BOOLEAN] }

\* the arguments of PrivacyService(...); order is the order in which the loop
\* of _redact_text visits self.redact_types (none when the constructor raises)
PrivacyServices ==
    { [NoService EXCEPT !.kind = "privacy", !.redact_types = types, !.order = order,
                        !.replacement_format = template] :
        types \in { {}, {"email"}, {"email", "ssn"}, {"email", "name"}, {"passport"} },
        order \in UNION { IF PrivacyInitRaises(ts) THEN {<<>>}
                          ELSE IterationOrders(RedactTypesOf(ts)) :
                            ts \in { {}, {"email"}, {"email", "ssn"} } },
        template \in { DEFAULT_REPLACEMENT, <<>>, <<"<">> \o <<KindField>> \o <<">">> } }

TaggerServices ==
    { [NoService EXCEPT !.kind = "tagger", !.tagger = cfg, !.rake = rake] :
        cfg \in TaggerConfigs \cup { [TaggerDefaults EXCEPT !.use_title = FALSE] },
        rake \in {NoRake} \cup ProcRakeAnswers }

\* the services whose order is an order of their own categories
Services ==
    CleanerServices \cup TaggerServices
        \cup { s \in PrivacyServices :
                 IF PrivacyInitRaises(s.redact_types) THEN s.order = <<>>
                 ELSE s.order \in IterationOrders(RedactTypesOf(s.redact_types)) }

\* processor.process(chat): whether it raises, and the value it returns
ProcessRaises(svc, chat) ==
    svc.kind = "privacy" /\ PrivacyProcessRaises(svc.order, svc.replacement_format, chat)

ProcessValue(svc, chat) ==
    CASE svc.kind = "cleaner" -> CleanerProcess(svc.cleaner, chat)
      [] svc.kind = "privacy" -> PrivacyProcess(svc.order, svc.replacement_format, chat)
      [] svc.kind = "tagger" -> TaggerProcess(svc.tagger, svc.rake, chat)

\* a process() that writes its result into the object it was given
Allocate_InPlace(objects, ref, value) ==
    [heap |-> [objects EXCEPT ![ref] = value], ref |-> ref]

\* `return UniversalChat(...)`: the result is a new object; no statement of
\* process() assigns to a field of chat or of its messages
Allocate(objects, ref, value) ==
    [heap |-> Append(objects, value), ref |-> Len(objects) + 1]

CallInit ==
    /\ call_pc = "new"
    /\ service = NoService
    /\ heap \in { <<c>> : c \in CallChats }
    /\ call_arg = 0
    /\ call_snapshot = None
    /\ call_result = 0
    /\ call_error = None

\* the constructor
Construct ==
    /\ call_pc = "new"
    /\ \E svc \in Services :
           /\ service' = svc
           /\ IF svc.kind = "privacy" /\ PrivacyInitRaises(svc.redact_types)
              THEN call_pc' = "raised" /\ call_error' = "ValueError"
              ELSE call_pc' = "ready" /\ UNCHANGED call_error
    /\ UNCHANGED <<heap, call_arg, call_snapshot, call_result>>
    /\ CallOnly

\* process(chat): on the first chat, then on the chat the first call returned
Process ==
    /\ call_pc \in {"ready", "returned"}
    /\ \E ref \in {IF call_pc = "ready" THEN 1 ELSE call_result} :
           /\ call_arg' = ref
           /\ call_snapshot' = heap[ref]
           /\ IF ProcessRaises(service, heap[ref])
              THEN /\ call_pc' = "failed"
                   /\ call_error' = "KeyError"
                   /\ UNCHANGED <<heap, call_result>>
              ELSE \E made \in {Allocate(heap, ref, ProcessValue(service, heap[ref]))} :
                       /\ heap' = made.heap
                       /\ call_result' = made.ref
                       /\ call_pc' = IF call_pc = "ready" THEN "returned" ELSE "again"
                       /\ UNCHANGED call_error
    /\ UNCHANGED service
    /\ CallOnly

CallNext ==
    \/ Construct
    \/ Process

CallStart == CallInit /\ ExpIdle /\ ProcIdle /\ TreeIdle /\ ConvIdle /\ MdIdle /\ LoadIdle /\ TextIdle /\ JsIdle /\ WalkIdle /\ ChainIdle

SpecCall == CallStart /\ [][CallNext]_vars

(***************************************************************************)
(* MarkdownExporter.export (markdown_exporter.py lines 41-67): one note    *)
(* per chat, written into a directory that may already hold files.  A path *)
(* is the name of an entry of output_path; the chats carry no created_at,  *)
(* so `self.organize_by_date and chat.created_at` (line 54) is false and   *)
(* every file goes to output_path itself.                                  *)
(***************************************************************************)
MaxNotes == 3

\* `if len(sanitized) > 100`
MaxFileName == 100

\* the class [<>:"/\\|?*] of line 141
InvalidChars == {"<", ">", ":", "\"", "/", "\\", "|", "?", "*"}

\* text.rfind(c), counted from 1; 0 when c does not occur
LastIndex(text, c) ==
    IF \E k \in 1..Len(text) : text[k] = c
    THEN CHOOSE k \in 1..Len(text) :
             text[k] = c /\ \A j \in (k + 1)..Len(text) : text[j] # c
    ELSE 0

\* text.rsplit(' ', 1)[0]: the text before its last space, all of it when
\* it has no space
RSplitHead(text) ==
    IF LastIndex(text, " ") = 0 THEN text
    ELSE SubSeq(text, 1, LastIndex(text, " ") - 1)

\* re.sub(r'[<>:"/\\|?*]', '', title): the characters of the class are dropped
RemoveInvalid(title) ==
    SelectSeq(title, LAMBDA c : c \notin InvalidChars)

\* re.sub(r'\s+', ' ', text): every run of whitespace becomes one space, so a
\* whitespace character is kept, as a space, only when it starts a run
CollapseWhitespace(text) ==
    LET starts == SelectSeq([k \in 1..Len(text) |-> k],
                            LAMBDA k : \/ text[k] \notin Whitespace
                                       \/ k = 1
                                       \/ text[k - 1] \notin Whitespace)
    IN  [i \in 1..Len(starts) |->
            IF text[starts[i]] \in Whitespace THEN " " ELSE text[starts[i]]]

_sanitize_filename(title) ==
    LET sanitized == Strip(CollapseWhitespace(RemoveInvalid(title)))
        limited == IF Len(sanitized) > MaxFileName
                   THEN RSplitHead(SubSeq(sanitized, 1, MaxFileName))
                   ELSE sanitized
    IN  IF limited = <<>> THEN <<"U", "n", "t", "i", "t", "l", "e", "d">> ELSE limited

\* path.suffix and path.stem of pathlib: the name is cut at its last dot,
\* unless that dot is the first or the last character
PathSuffix(name) ==
    LET i == LastIndex(name, ".")
    IN  IF 1 < i /\ i < Len(name) THEN SubSeq(name, i, Len(name)) ELSE <<>>

PathStem(name) ==
    LET i == LastIndex(name, ".")
    IN  IF 1 < i /\ i < Len(name) THEN SubSeq(name, 1, i - 1) ELSE name

\* path.exists()
Exists(dir, path) == \E f \in dir : f.path = path

\* the loop of _unique_path, lines 163-165
RECURSIVE UniquePathLoop(_, _, _, _, _)
UniquePathLoop(dir, path, stem, suffix, counter) ==
    IF ~Exists(dir, path) THEN path
    ELSE UniquePathLoop(dir, stem \o <<"_">> \o IntToStr(counter) \o suffix,
                        stem, suffix, counter + 1)

\* a _unique_path that hands the path back as it is
_unique_path_Same(dir, path) ==
    path

_unique_path(dir, path) ==
    IF ~Exists(dir, path) THEN path
    ELSE UniquePathLoop(dir, path, PathStem(path), PathSuffix(path), 1)

\* export_single (lines 69-100) renders the front matter, the title and the
\* role and text of every message; a file's content is represented by the
\* fields of the chat the rendering reads
export_single(chat) ==
    [frontmatter |-> [title |-> chat.title, date |-> chat.created_at,
                      source |-> chat.source, tags |-> chat.tags,
                      messages |-> Len(chat.messages)],
     title |-> chat.title,
     messages |-> [j \in 1..Len(chat.messages) |->
                      [role |-> chat.messages[j].role,
                       text |-> chat.messages[j].text]]]

\* file_path.write_text(content): the file is created, or replaced
write_text(dir, path, content) ==
    { f \in dir : f.path # path } \cup { [path |-> path, content |-> content] }

\* a title of 121 characters and the 60 characters its file name keeps
LongTitle == [k \in 1..121 |-> IF k <= 60 THEN "a" ELSE IF k = 61 THEN " " ELSE "b"]

NoteTitles ==
    { <<"T">>, <<"T", "_", "1">>, <<" ", "T", ":", "\t", "\n">>, <<"?">>, LongTitle,
      SubSeq(LongTitle, 1, 60) }

\* chat number i of an export: its one message tells the chats apart
Note(i, title) ==
    [MkChat(i, << [role |-> "user", text |-> <<"n">> \o IntToStr(i)] >>)
        EXCEPT !.title = title]

NoteLists ==
    UNION { { [i \in 1..n |-> Note(i, titles[i])] : titles \in [1..n -> NoteTitles] }
            : n \in 0..MaxNotes }

\* files found in output_path, left by an earlier export
OldFiles ==
    { [path |-> name, content |-> export_single(Note(0, <<"o", "l", "d">>))]
        : name \in { <<"T", ".", "m", "d">>, <<"T", "_", "1", ".", "m", "d">>, <<"U", "n", "t", "i", "t", "l", "e", "d", ".", "m", "d">> } }

MdInit ==
    /\ md_pc = "start"
    /\ md_chats \in NoteLists
    /\ md_pos = 0
    /\ directory \in SUBSET OldFiles
    /\ md_log = <<>>

\* output_path.mkdir(parents=True, exist_ok=True)
Export_Mkdir ==
    /\ md_pc = "start"
    /\ md_pc' = "loop"
    /\ UNCHANGED <<md_chats, md_pos, directory, md_log>>
    /\ MdOnly

\* one round of `for chat in chats`
Export_Chat ==
    /\ md_pc = "loop"
    /\ md_pos < Len(md_chats)
    /\ \E chat \in {md_chats[md_pos + 1]} :
       \E file_path \in {_unique_path(directory,
                                      _sanitize_filename(chat.title) \o <<".", "m", "d">>)} :
           /\ directory' = write_text(directory, file_path, export_single(chat))
           /\ md_log' = Append(md_log, [path |-> file_path,
                                        existed |-> Exists(directory, file_path),
                                        before |-> directory])
    /\ md_pos' = md_pos + 1
    /\ UNCHANGED <<md_pc, md_chats>>
    /\ MdOnly

Export_Return ==
    /\ md_pc = "loop"
    /\ md_pos = Len(md_chats)
    /\ md_pc' = "done"
    /\ UNCHANGED <<md_chats, md_pos, directory, md_log>>
    /\ MdOnly

MdNext ==
    \/ Export_Mkdir
    \/ Export_Chat
    \/ Export_Return

MdStart == MdInit /\ ExpIdle /\ ProcIdle /\ TreeIdle /\ ConvIdle /\ CallIdle /\ LoadIdle /\ TextIdle /\ JsIdle /\ WalkIdle /\ ChainIdle

SpecNotes == MdStart /\ [][MdNext]_vars

(***************************************************************************)
(* load() of either loader on one record (lines 54-57 of both loaders):    *)
(*     chat = self._parse_conversation(conv, str(path))                    *)
(*     if chat and chat.messages: yield chat                               *)
(* The record holds two messages: the first is well formed, the second has *)
(* the role (sender) and the timestamp chosen, and the record itself has   *)
(* the creation time chosen.                                               *)
(***************************************************************************)
\* values of author.role and of sender: known, unknown, no text, no string
LoadRoles ==
    { JStr(<<"a", "s", "s", "i", "s", "t", "a", "n", "t">>), JStr(<<"t", "o", "o", "l">>), JStr(<<"U", "s", "e", "r">>), JStr(<<>>), JInt(5), JNull }

\* values of create_time (seconds) and of created_at (ISO text): absent, well
\* formed for one of the loaders, ill formed, out of range, of a wrong type
LoadTimes ==
    { JNull, JInt(5), JBool(TRUE), JStr(<<"2", "0", "2", "4", "-", "0", "1", "-", "0", "1">>), JStr(<<"g", "a", "r", "b", "a", "g", "e">>),
      JBig(<<"2", "5", "3", "4", "0", "2", "3", "0", "0", "8", "0", "0">>), JBig(<<"1", "0", "0", "0", "0", "0", "0", "0", "0", "0", "0", "0", "0", "0", "0", "0", "0", "0", "0", "0", "0">>), JList(<< JInt(1) >>) }

\* a message of a ChatGPT node
LoadGptMessage(id, role, text, create_time) ==
    JDict(<< KV(<<"i", "d">>, JStr(id)),
             KV(<<"a", "u", "t", "h", "o", "r">>, JDict(<< KV(<<"r", "o", "l", "e">>, role) >>)),
             KV(<<"c", "r", "e", "a", "t", "e", "_", "t", "i", "m", "e">>, create_time),
             KV(<<"c", "o", "n", "t", "e", "n", "t">>, JDict(<< KV(<<"c", "o", "n", "t", "e", "n", "t", "_", "t", "y", "p", "e">>, JStr(<<"t", "e", "x", "t">>)),
                                     KV(<<"p", "a", "r", "t", "s">>, JList(<< JStr(text) >>)) >>)) >>)

LoadGptRecord(role, msg_time, conv_time) ==
    JDict(<< KV(<<"i", "d">>, JStr(<<"g">>)),
             KV(<<"t", "i", "t", "l", "e">>, JStr(<<"C", "h", "a", "t">>)),
             KV(<<"c", "r", "e", "a", "t", "e", "_", "t", "i", "m", "e">>, conv_time),
             KV(<<"m", "a", "p", "p", "i", "n", "g">>, JDict(<<
                 KV(<<"A">>, GptNode(JNull, << <<"B">> >>,
                                  LoadGptMessage(<<"m", "1">>, JStr(<<"u", "s", "e", "r">>), <<"h", "i">>, JNull))),
                 KV(<<"B">>, GptNode(JStr(<<"A">>), <<>>,
                                  LoadGptMessage(<<"m", "2">>, role, <<"y", "o">>, msg_time))) >>)) >>)

LoadClaudeMessage(uuid, sender, text, created_at) ==
    JDict(<< KV(<<"u", "u", "i", "d">>, JStr(uuid)), KV(<<"s", "e", "n", "d", "e", "r">>, sender), KV(<<"t", "e", "x", "t">>, JStr(text)),
             KV(<<"c", "r", "e", "a", "t", "e", "d", "_", "a", "t">>, created_at) >>)

LoadClaudeRecord(sender, msg_time, conv_time) ==
    JDict(<< KV(<<"u", "u", "i", "d">>, JStr(<<"k">>)),
             KV(<<"n", "a", "m", "e">>, JStr(<<"C", "h", "a", "t">>)),
             KV(<<"c", "r", "e", "a", "t", "e", "d", "_", "a", "t">>, conv_time),
             KV(<<"c", "h", "a", "t", "_", "m", "e", "s", "s", "a", "g", "e", "s">>, JList(<<
                 LoadClaudeMessage(<<"m", "1">>, JStr(<<"h", "u", "m", "a", "n">>), <<"h", "i">>, JNull),
                 LoadClaudeMessage(<<"m", "2">>, sender, <<"y", "o">>, msg_time) >>)) >>)

LoadSample(platform, role, msg_time, conv_time) ==
    IF platform = "chatgpt" THEN LoadGptRecord(role, msg_time, conv_time)
    ELSE LoadClaudeRecord(role, msg_time, conv_time)

LoadInit ==
    /\ ld_pc = "start"
    /\ ld_source \in {"chatgpt", "claude"}
    /\ \E role \in LoadRoles, msg_time \in LoadTimes, conv_time \in LoadTimes :
           ld_conv = LoadSample(ld_source, role, msg_time, conv_time)
    /\ ld_parsed = Parsed(<<>>)
    /\ ld_yielded = <<>>

\* chat = self._parse_conversation(conv, str(path))
Loop_Parse ==
    /\ ld_pc = "start"
    /\ \E parsed \in {ParseConversation(ld_source, ld_conv, "conversations.json")} :
           /\ ld_parsed' = parsed
           /\ ld_pc' = IF parsed.escaped THEN "raised" ELSE "parsed"
    /\ UNCHANGED <<ld_source, ld_conv, ld_yielded>>
    /\ LoadOnly

\* if chat and chat.messages: yield chat
Loop_Yield ==
    /\ ld_pc = "parsed"
    /\ ld_yielded' = YieldNonEmpty(ld_parsed).chats
    /\ ld_pc' = "next"
    /\ UNCHANGED <<ld_source, ld_conv, ld_parsed>>
    /\ LoadOnly

LoadNext ==
    \/ Loop_Parse
    \/ Loop_Yield

LoadStart ==
    LoadInit /\ ExpIdle /\ ProcIdle /\ TreeIdle /\ ConvIdle /\ CallIdle /\ MdIdle /\ TextIdle /\ JsIdle /\ WalkIdle /\ ChainIdle

SpecLoad == LoadStart /\ [][LoadNext]_vars

(***************************************************************************)
(* ChatGPTLoader._traverse_tree (lines 115-147), one call at a time, on    *)
(* the mappings of the tree reconstruction above (nodes keyed "A", "" and  *)
(* "B", with the children lists of ChildLists), from the node _find_root   *)
(* names.  A call looks its node up, parses its message and, when the      *)
(* node has children, calls itself on the first: the calls that are open   *)
(* are counted, and the interpreter raises RecursionError when they reach  *)
(* its recursion limit.  The function has no set of visited nodes.         *)
(***************************************************************************)
\* the recursion limit, scaled to the mappings of the model: a chain over all
\* three nodes and an absent child takes four calls
MaxDepth == 5

WalkShapes == { shape \in NodeShapes : shape.message # "rejected" }

\* what _parse_message returns for the messages of these nodes, computed once
WalkMessages ==
    { TreeMessage(id, <<"u", "s", "e", "r">>) : id \in Range(NodeIds) }

ParsedMessages == [msg_data \in WalkMessages |-> _parse_message(msg_data)]

WalkInit ==
    /\ w_pc = "start"
    /\ w_mapping = JNull
    /\ w_root_id = JNull
    /\ w_node_id = JNull
    /\ w_depth = 0
    /\ w_messages = <<>>

\* _parse_conversation lines 67-76: the mapping of the record, its root and,
\* when _find_root names one, the first call of the walk
Parse_FindRoot ==
    /\ w_pc = "start"
    /\ \E keys \in KeyLists :
       \E shapes \in [1..Len(keys) -> WalkShapes] :
       \E mapping \in {JDict([k \in 1..Len(keys) |-> KV(keys[k], TreeNode(keys[k], shapes[k]))])} :
       \E root_id \in {_find_root(mapping)} :
           /\ w_mapping' = mapping
           /\ w_root_id' = root_id
           /\ IF root_id.t = "raise" \/ ~Truthy(root_id)
              THEN w_pc' = "no_root" /\ w_node_id' = JNull
              ELSE w_pc' = "call" /\ w_node_id' = root_id
    /\ UNCHANGED <<w_depth, w_messages>>
    /\ WalkOnly

\* a version with a guard on the root: a later call on the node the walk
\* started on returns the empty list
Traverse_Call_Guarded ==
    /\ w_pc = "call"
    /\ w_depth < MaxDepth
    /\ \E node \in {Get(w_mapping, w_node_id.v, JNull)} :
       \E seen \in {w_depth > 0 /\ w_node_id = w_root_id} :
       \E msg_data \in {Get(node, <<"m", "e", "s", "s", "a", "g", "e">>, JNull)} :
       \E children \in {Get(node, <<"c", "h", "i", "l", "d", "r", "e", "n">>, JList(<<>>))} :
       \E msg \in {IF Truthy(node) /\ ~seen /\ Truthy(msg_data) THEN ParsedMessages[msg_data] ELSE <<>>} :
           /\ w_messages' = w_messages \o msg
           /\ IF Truthy(node) /\ ~seen /\ Truthy(children)
              THEN /\ w_node_id' = children.v[1]
                   /\ w_depth' = w_depth + 1
                   /\ UNCHANGED w_pc
              ELSE /\ w_pc' = "returned"
                   /\ UNCHANGED <<w_node_id, w_depth>>
    /\ UNCHANGED <<w_mapping, w_root_id>>
    /\ WalkOnly

\* one call of _traverse_tree(mapping, node_id): lines 129-147.  `return []`
\* and `return messages` end the call and, with it, the calls that wait for
\* it, which only extend their lists
Traverse_Call ==
    /\ w_pc = "call"
    /\ w_depth < MaxDepth
    /\ \E node \in {Get(w_mapping, w_node_id.v, JNull)} :
       \E msg_data \in {Get(node, <<"m", "e", "s", "s", "a", "g", "e">>, JNull)} :
       \E children \in {Get(node, <<"c", "h", "i", "l", "d", "r", "e", "n">>, JList(<<>>))} :
       \E msg \in {IF Truthy(node) /\ Truthy(msg_data) THEN ParsedMessages[msg_data] ELSE <<>>} :
           /\ w_messages' = w_messages \o msg
           /\ IF Truthy(node) /\ Truthy(children)
              THEN /\ w_node_id' = children.v[1]
                   /\ w_depth' = w_depth + 1
                   /\ UNCHANGED w_pc
              ELSE /\ w_pc' = "returned"
                   /\ UNCHANGED <<w_node_id, w_depth>>
    /\ UNCHANGED <<w_mapping, w_root_id>>
    /\ WalkOnly

\* the call that would exceed the recursion limit: RecursionError, which
\* unwinds every open call; their lists are lost
Traverse_Overflow ==
    /\ w_pc = "call"
    /\ w_depth >= MaxDepth
    /\ w_pc' = "raised"
    /\ w_messages' = <<>>
    /\ UNCHANGED <<w_mapping, w_root_id, w_node_id, w_depth>>
    /\ WalkOnly

WalkNext ==
    \/ Parse_FindRoot
    \/ Traverse_Call
    \/ Traverse_Overflow

WalkStart ==
    WalkInit /\ ExpIdle /\ ProcIdle /\ TreeIdle /\ ConvIdle /\ CallIdle /\ MdIdle /\ LoadIdle /\ TextIdle /\ JsIdle /\ ChainIdle

\* the interpreter goes on running the call that is due
SpecWalk == WalkStart /\ [][WalkNext]_vars /\ WF_vars(Traverse_Call \/ Traverse_Overflow)

(***************************************************************************)
(* The canonical JSON exporter (exporters/json_exporter.py) and the        *)
(* loading of a file it wrote by a loader of get_loader.  A file is the    *)
(* document json.load decodes from it, with the layout flag it was written *)
(* with; paths are names below one directory.                              *)
(***************************************************************************)
MaxJsonChats == 2

\* datetime.isoformat() of the timestamps the loaders make: fromtimestamp of
\* a number of seconds below one day (clock on UTC), fromisoformat of a text
Pad2(n) == <<Digit(n \div 10), Digit(n % 10)>>

isoformat(dt) ==
    IF dt[1] = "ts"
    THEN <<"1", "9", "7", "0", "-", "0", "1", "-", "0", "1", "T">> \o Pad2(dt[2] \div 3600) \o <<":">> \o Pad2((dt[2] % 3600) \div 60)
             \o <<":">> \o Pad2(dt[2] % 60)
    ELSE IF Len(dt[2]) = 10 THEN dt[2] \o <<"T", "0", "0", ":", "0", "0", ":", "0", "0">>
    ELSE IF dt[2][Len(dt[2])] = "Z" THEN SubSeq(dt[2], 1, Len(dt[2]) - 1) \o <<"+", "0", "0", ":", "0", "0">>
    ELSE dt[2]

\* the values of the enumerations as json writes them (use_enum_values)
EnumText(value) ==
    CASE value = "chatgpt" -> <<"c", "h", "a", "t", "g", "p", "t">>
      [] value = "claude" -> <<"c", "l", "a", "u", "d", "e">>
      [] value = "gemini" -> <<"g", "e", "m", "i", "n", "i">>
      [] value = "user" -> <<"u", "s", "e", "r">>
      [] value = "assistant" -> <<"a", "s", "s", "i", "s", "t", "a", "n", "t">>
      [] value = "system" -> <<"s", "y", "s", "t", "e", "m">>

IsoOrNull(dt) == IF dt = None THEN JNull ELSE JStr(isoformat(dt))

MetadataValue(metadata) ==
    IF metadata = None THEN JNull
    ELSE IF metadata = <<>> THEN JDict(<<>>)
    ELSE JDict(<< KV(<<"m", "o", "d", "e", "l">>, JStr(metadata.model)) >>)

\* JSONExporter._chat_to_dict
_chat_to_dict(chat) ==
    JDict(<< KV(<<"i", "d">>, JStr(chat.id)),
             KV(<<"s", "o", "u", "r", "c", "e">>, JStr(EnumText(chat.source))),
             KV(<<"s", "o", "u", "r", "c", "e", "_", "f", "i", "l", "e">>, JStr(chat.source_file)),
             KV(<<"t", "i", "t", "l", "e">>, JStr(chat.title)),
             KV(<<"c", "r", "e", "a", "t", "e", "d", "_", "a", "t">>, IsoOrNull(chat.created_at)),
             KV(<<"u", "p", "d", "a", "t", "e", "d", "_", "a", "t">>, IsoOrNull(chat.updated_at)),
             KV(<<"m", "e", "s", "s", "a", "g", "e", "s">>, JList([k \in 1..Len(chat.messages) |->
                 JDict(<< KV(<<"i", "d">>, JStr(chat.messages[k].id)),
                          KV(<<"r", "o", "l", "e">>, JStr(EnumText(chat.messages[k].role))),
                          KV(<<"t", "e", "x", "t">>, JStr(chat.messages[k].text)),
                          KV(<<"t", "i", "m", "e", "s", "t", "a", "m", "p">>, IsoOrNull(chat.messages[k].timestamp)),
                          KV(<<"m", "e", "t", "a", "d", "a", "t", "a">>, MetadataValue(chat.messages[k].metadata)) >>)])),
             KV(<<"t", "a", "g", "s">>, JList([k \in 1..Len(chat.tags) |-> JStr(chat.tags[k])])),
             KV(<<"t", "o", "k", "e", "n", "_", "c", "o", "u", "n", "t">>, IF chat.token_count = None THEN JNull ELSE JInt(chat.token_count)) >>)

\* open(path, 'w') and json.dump(data, f, ...): the file at path is created
\* or replaced
json_dump(files, path, pretty, data) ==
    { f \in files : f.path # path } \cup {[path |-> path, pretty |-> pretty, data |-> data]}

\* load() of a loader on a decoded document: the chats it yields, escaped
\* when an exception leaves the generator
LoadDocument(platform, data, source_file) ==
    LET items == IterItems(data)
        each == [k \in 1..Len(items.v) |-> LoadRecord(platform, items.v[k], source_file)]
    IN  IF items.t = "raise" THEN Escaped
        ELSE IF \E k \in 1..Len(each) : each[k].escaped THEN Escaped
        ELSE Parsed(Flatten([k \in 1..Len(each) |-> each[k].chats]))

\* the chats to export: chats the two loaders yield, for records with and
\* without timestamps, with an id of the record or the empty id of a record
\* without one, as the tagger left them
JsonTimes(platform) ==
    IF platform = "chatgpt" THEN {JNull, JInt(5)}
    ELSE {JNull} \cup { JStr(date) : date \in IsoDates }

JsonChat(platform, time, id, tags) ==
    [LoadRecord(platform, LoadSample(platform, JStr(<<"a", "s", "s", "i", "s", "t", "a", "n", "t">>), time, time),
                <<"c", "o", "n", "v", "e", "r", "s", "a", "t", "i", "o", "n", "s", ".", "j", "s", "o", "n">>).chats[1]
        EXCEPT !.id = id, !.tags = tags]

JsonChatKinds ==
    { kind \in [platform : {"chatgpt", "claude"}, time : JsonTimes("chatgpt") \cup JsonTimes("claude"),
                id : {<<"c", "1">>, <<"c", "2">>, <<>>}, tags : {<<>>, <<<<"c", "h", "a", "t">>>>}] :
        kind.time \in JsonTimes(kind.platform) }

JsInit ==
    /\ js_pc = "start"
    /\ js_exporter \in [pretty : BOOLEAN, single_file : BOOLEAN]
    /\ js_output_path \in {<<"o", "u", "t", ".", "j", "s", "o", "n">>, <<"o", "u", "t">>, <<"o", "u", "t", ".", "J", "S", "O", "N">>}
    /\ \E n \in 0..MaxJsonChats :
           \E kinds \in [1..n -> JsonChatKinds] :
               js_chats = [k \in 1..n |-> JsonChat(kinds[k].platform, kinds[k].time, kinds[k].id, kinds[k].tags)]
    /\ js_pos = 0
    /\ js_files = {}
    /\ js_reloaded = <<>>

\* export() with single_file: _export_single_file, lines 50-64
SingleFile_Write ==
    /\ js_pc = "start"
    /\ js_exporter.single_file
    /\ \E output_path \in {IF Lower(PathSuffix(js_output_path)) # <<".", "j", "s", "o", "n">>
                           THEN PathStem(js_output_path) \o <<".", "j", "s", "o", "n">>
                           ELSE js_output_path} :
           /\ js_output_path' = output_path
           /\ js_files' = json_dump(js_files, output_path, js_exporter.pretty,
                                    JList([k \in 1..Len(js_chats) |-> _chat_to_dict(js_chats[k])]))
    /\ js_pc' = "done"
    /\ UNCHANGED <<js_exporter, js_chats, js_pos, js_reloaded>>
    /\ JsOnly

\* export() without single_file: _export_multiple_files line 68, the
\* directory is made
MultipleFiles_Mkdir ==
    /\ js_pc = "start"
    /\ ~js_exporter.single_file
    /\ js_pc' = "loop"
    /\ js_pos' = 1
    /\ UNCHANGED <<js_exporter, js_output_path, js_chats, js_files, js_reloaded>>
    /\ JsOnly

\* the body of the loop of _export_multiple_files, lines 70-80
MultipleFiles_Chat ==
    /\ js_pc = "loop"
    /\ js_pos <= Len(js_chats)
    /\ \E file_name \in {js_chats[js_pos].id \o <<".", "j", "s", "o", "n">>} :
           js_files' = json_dump(js_files, js_output_path \o <<"/">> \o file_name, js_exporter.pretty,
                                 _chat_to_dict(js_chats[js_pos]))
    /\ js_pos' = js_pos + 1
    /\ UNCHANGED <<js_pc, js_exporter, js_output_path, js_chats, js_reloaded>>
    /\ JsOnly

MultipleFiles_Return ==
    /\ js_pc = "loop"
    /\ js_pos > Len(js_chats)
    /\ js_pc' = "done"
    /\ UNCHANGED <<js_exporter, js_output_path, js_chats, js_pos, js_files, js_reloaded>>
    /\ JsOnly

\* the file of a single-file export is loaded again: get_loader(source) and
\* list(loader.load(path))
Reload ==
    /\ js_pc = "done"
    /\ js_exporter.single_file
    /\ \E source \in SourcePlatform :
       \E f \in js_files :
           IF get_loader(source) = "ValueError"
           THEN js_pc' = "reload_raised" /\ UNCHANGED js_reloaded
           ELSE \E loaded \in {LoadDocument(source, f.data, f.path)} :
                    /\ js_pc' = IF loaded.escaped THEN "reload_raised" ELSE "reloaded"
                    /\ js_reloaded' = loaded.chats
    /\ UNCHANGED <<js_exporter, js_output_path, js_chats, js_pos, js_files>>
    /\ JsOnly

JsNext ==
    \/ SingleFile_Write
    \/ MultipleFiles_Mkdir
    \/ MultipleFiles_Chat
    \/ MultipleFiles_Return
    \/ Reload

JsStart ==
    JsInit /\ ExpIdle /\ ProcIdle /\ TreeIdle /\ ConvIdle /\ CallIdle /\ MdIdle /\ LoadIdle /\ TextIdle /\ WalkIdle /\ ChainIdle

SpecJson == JsStart /\ [][JsNext]_vars

(***************************************************************************)
(* The text functions of the redactor and of the tagger on one text:       *)
(* PrivacyService._redact_text and detect, TaggerService._extract_simple.  *)
(***************************************************************************)
\* PrivacyService.detect: the findings in the order of the dict, which is the
\* order in which the loop visits self.redact_types
detect(order, text) ==
    SelectSeq([k \in 1..Len(order) |->
                  [type |-> order[k], matches |-> FindAll(PII_PATTERNS(order[k]), text)]],
              LAMBDA finding : finding.matches # <<>>)

\* the arguments of PrivacyService(redact_types=...) and TaggerService(max_tags=...)
\* and, for the redactor, the order in which this run's loops visit the set
TextTypeSets == { {}, {"email"}, {"ssn"}, {"phone", "ssn"}, {"email", "ssn"} }

TextServices ==
    UNION { { [redact_types |-> types, order |-> order, replacement_format |-> DEFAULT_REPLACEMENT,
               tagger |-> [TaggerDefaults EXCEPT !.max_tags = max_tags]] :
                order \in IterationOrders(RedactTypesOf(types)), max_tags \in {0, 1, 2, 5} } :
            types \in TextTypeSets }

TextSamples ==
    { <<>>, <<"a", "@", "b", ".", "c", "o">>, <<"1", "2", "3", "4", "5", "6", "7", "8", "9">>, <<"1", "2", "3", "-", "4", "5", "-", "6", "7", "8", "9", "@", "b", ".", "c", "o">>, <<"c", "a", "l", "l", " ", "5", "5", "5", "-", "1", "2", "3", "-", "4", "5", "6", "7", " ", "n", "o", "w">>, <<"1", "0", ".", "0", ".", "0", ".", "1">>,
      <<"m", "a", "i", "l", " ", "a", "@", "b", ".", "c", "o", " ", "o", "r", " ", "1", "2", "3", "-", "4", "5", "-", "6", "7", "8", "9">>,
      <<"b", "e", "t", "a", " ", "a", "l", "p", "h", "a", " ", "b", "e", "t", "a", " ", "a", "l", "p", "h", "a", " ", "g", "a", "m", "m", "a">>, <<"T", "h", "e", " ", "c", "a", "t", " ", "a", "n", "d", " ", "t", "h", "e", " ", "C", "a", "t", " ", "s", "a", "t">>, <<"a", "b", " ", "c", "d">>,
      <<"o", "n", "e", " ", "t", "w", "o", " ", "t", "w", "o", " ", "t", "h", "r", "e", "e", " ", "t", "h", "r", "e", "e", " ", "f", "o", "u", "r">>, <<"z", "e", "t", "a", " ", "a", "l", "p", "h", "a", " ", "z", "e", "t", "a", "-", "a", "l", "p", "h", "a", " ", "A", "L", "P", "H", "A", " ", "x", "1", "y", " ", "a", "b", "c", "2", "d", "e", "f">> }

TextInit ==
    /\ tx_service \in TextServices
    /\ tx_text \in TextSamples
    /\ tx_done = {}
    /\ tx_redacted = <<>>
    /\ tx_findings = <<>>
    /\ tx_tags = <<>>

\* service._redact_text(text)
Call_redact_text ==
    /\ "redact" \notin tx_done
    /\ tx_redacted' = _redact_text(tx_service.order, tx_service.replacement_format, tx_text)
    /\ tx_done' = tx_done \cup {"redact"}
    /\ UNCHANGED <<tx_service, tx_text, tx_findings, tx_tags>>
    /\ TextOnly

\* service.detect(text)
Call_detect ==
    /\ "detect" \notin tx_done
    /\ tx_findings' = detect(tx_service.order, tx_text)
    /\ tx_done' = tx_done \cup {"detect"}
    /\ UNCHANGED <<tx_service, tx_text, tx_redacted, tx_tags>>
    /\ TextOnly

\* tagger._extract_simple(text)
Call_extract_simple ==
    /\ "tags" \notin tx_done
    /\ tx_tags' = _extract_simple(tx_service.tagger, tx_text)
    /\ tx_done' = tx_done \cup {"tags"}
    /\ UNCHANGED <<tx_service, tx_text, tx_redacted, tx_findings>>
    /\ TextOnly

TextNext ==
    \/ Call_redact_text
    \/ Call_detect
    \/ Call_extract_simple

TextStart ==
    TextInit /\ ExpIdle /\ ProcIdle /\ TreeIdle /\ ConvIdle /\ CallIdle /\ MdIdle /\ LoadIdle /\ JsIdle /\ WalkIdle /\ ChainIdle

SpecText == TextStart /\ [][TextNext]_vars

(***************************************************************************)
(* The processor chain of convert (cli.py lines 157-158) on one chat:      *)
(* `for processor in processors: chat = processor.process(chat)`, for the  *)
(* chains that hold a redactor, in every order of their services.          *)
(***************************************************************************)
ChainMsgKinds ==
    { [role |-> "user", text |-> <<"a", "p", "i", "k", "e", "y", "A", "B", "C", "D", "E", "F", "G", "H", "I", "J", "K", "L", "M", "N", "O", "P", "Q", "R", "S", "T">>],
      [role |-> "user", text |-> <<"a", "@", "b", ".", "c", "o">>],
      [role |-> "assistant", text |-> <<"s", "k", "-", "a", "b", "c", "d", "e", "f", "g", "h", "i", "j", "k", "l", "m", "n", "o", "p", "q", "r", "s", "t", "u", "v">>],
      [role |-> "user", text |-> <<"<", "b", ">", "h", "i", "<", "/", "b", ">", " ", " ", "x">>] }

MaxChainMsgs == 2

ChainChats ==
    { ProcChat(title, kinds) :
        title \in { <<"K", "e", "y", "s">>, <<"a", "@", "b", ".", "c", "o">> },
        kinds \in MsgSeqsUpTo(ChainMsgKinds, MaxChainMsgs) }

\* PrivacyService(redact_types=..., replacement_format=...) with the order in
\* which its loop visits the set, CleanerService(), TaggerService(max_tags=...)
\* without the rake library
ChainRedactors ==
    { [NoService EXCEPT !.kind = "privacy", !.redact_types = types, !.order = order,
                        !.replacement_format = DEFAULT_REPLACEMENT] :
        types \in { {}, {"api_key"}, {"email"} },
        order \in { PiiTypes, Reverse(PiiTypes), <<"api_key">>, <<"email">> } }
    \cup { [NoService EXCEPT !.kind = "privacy", !.redact_types = {"email"}, !.order = <<"email">>,
                             !.replacement_format = <<"<">> \o <<KindField>> \o <<">">>] }

ChainTaggers ==
    { [NoService EXCEPT !.kind = "tagger", !.tagger = [TaggerDefaults EXCEPT !.max_tags = max_tags]] :
        max_tags \in {1, 5} }

ChainCleaner == [NoService EXCEPT !.kind = "cleaner"]

\* the chains: a redactor, alone or with a cleaner, a tagger or both, in
\* every order
Chains ==
    { chain \in UNION { [1..n -> {ChainCleaner} \cup ChainRedactors \cup ChainTaggers] : n \in 1..3 } :
        /\ \A k, l \in 1..Len(chain) : k # l => chain[k].kind # chain[l].kind
        /\ \E k \in 1..Len(chain) :
               /\ chain[k].kind = "privacy"
               /\ chain[k].order \in IterationOrders(RedactTypesOf(chain[k].redact_types)) }

ChainInit ==
    /\ ch_processors \in Chains
    /\ ch_pos = 0
    /\ ch_chat \in ChainChats

\* one turn of the loop: chat = processor.process(chat); an exception leaves
\* the loop before the assignment (ch_pos = -1)
Chain_Process ==
    /\ ch_pos >= 0
    /\ ch_pos < Len(ch_processors)
    /\ \E processor \in {ch_processors[ch_pos + 1]} :
           IF ProcessRaises(processor, ch_chat)
           THEN ch_pos' = -1 /\ UNCHANGED ch_chat
           ELSE ch_pos' = ch_pos + 1 /\ ch_chat' = ProcessValue(processor, ch_chat)
    /\ UNCHANGED ch_processors
    /\ ChainOnly

ChainNext == Chain_Process

ChainStart ==
    ChainInit /\ ExpIdle /\ ProcIdle /\ TreeIdle /\ ConvIdle /\ CallIdle /\ MdIdle /\ LoadIdle /\ TextIdle /\ JsIdle /\ WalkIdle

SpecChain == ChainStart /\ [][ChainNext]_vars

(***************************************************************************)
(* Claims on the chunked exporter, checked under SpecExport.               *)
(***************************************************************************)
IdsOf(msgs) == [k \in 1..Len(msgs) |-> msgs[k].id]

RenderedLen(msg) == Len(MsgText(msg))

\* the chunks of the written document that belong to a chat, in output order
ChunksOfChat(doc, chat) ==
    SelectSeq(doc.chunks, LAMBDA c : c.conversation_id = chat.id)

\* the messages of a chat that a chunk names, in conversation order
MsgsOfChunk(chat, chunk) ==
    SelectSeq(chat.messages,
              LAMBDA m : \E k \in 1..Len(chunk.message_ids) : chunk.message_ids[k] = m.id)

RenderedSum(msgs) == SumSeq([k \in 1..Len(msgs) |-> RenderedLen(msgs[k])])

\* C1: in the written document, for every chat, the message_ids of its chunks
\* concatenated in chunk order are the chat's message ids in conversation order,
\* no chunk is empty, and a message whose rendered length alone exceeds the
\* budget is a chunk by itself.
C1_NoDataLoss ==
    exp_pc = "done" =>
        \A i \in 1..Len(exp_chats) :
            LET chat == exp_chats[i]
                cs == ChunksOfChat(out_file, chat)
            IN  /\ Flatten([k \in 1..Len(cs) |-> cs[k].message_ids]) = IdsOf(chat.messages)
                /\ \A k \in 1..Len(cs) : cs[k].message_ids # <<>> /\ cs[k].text # <<>>
                /\ \A j \in 1..Len(chat.messages) :
                       RenderedLen(chat.messages[j]) > max_chars =>
                           \E k \in 1..Len(cs) : cs[k].message_ids = <<chat.messages[j].id>>

\* a written document where an oversized message follows a chunk of two messages
C1_Witness ==
    /\ exp_pc = "done"
    /\ \E i \in 1..Len(exp_chats) :
           /\ \E j \in 1..Len(exp_chats[i].messages) :
                  RenderedLen(exp_chats[i].messages[j]) > max_chars
           /\ Len(ChunksOfChat(out_file, exp_chats[i])) >= 2
    /\ \E k \in 1..Len(out_file.chunks) : Len(out_file.chunks[k].message_ids) >= 2

\* C2: every chunk of more than one message has a text of at most max_chars
\* characters and a token_estimate of at most chunk_size.
C2_BudgetBound ==
    \A k \in 1..Len(export_data.chunks) :
        LET c == export_data.chunks[k]
        IN  Len(c.message_ids) > 1 =>
                /\ Len(c.text) <= max_chars
                /\ c.token_estimate <= chunk_size

\* C3: the chunks of the output carry the ids chunk_0, chunk_1, ... in output
\* order, without gap or duplicate, across chat boundaries.
C3_SequentialIds ==
    /\ \A k \in 1..Len(export_data.chunks) :
           export_data.chunks[k].chunk_id = ChunkName(k - 1)
    /\ \A k, l \in 1..Len(export_data.chunks) :
           k # l => export_data.chunks[k].chunk_id # export_data.chunks[l].chunk_id
    /\ exp_pc = "done" => out_file.chunks = export_data.chunks

\* a written document of three chunks or more whose chats include one without
\* chunks placed before a chat with chunks
C3_Witness ==
    /\ exp_pc = "done"
    /\ Len(out_file.chunks) >= 3
    /\ \E i, j \in 1..Len(exp_chats) :
           /\ i < j
           /\ exp_chats[i].messages = <<>>
           /\ Len(ChunksOfChat(out_file, exp_chats[j])) >= 2

\* C4: the chunks returned for a chat are the greedy split: a chunk is sealed
\* before a message only when the chunk is non-empty and the message would take
\* it over the budget (the rendered lengths of a chunk plus the first message of
\* the next chunk exceed max_chars), and never earlier than that (a chunk of
\* several messages stays within max_chars); so two messages give two chunks
\* exactly when their rendered lengths together exceed the budget.
C4_GreedySplit ==
    exp_pc = "returned" =>
        LET chat == exp_chats[ci]
            R(k) == RenderedSum(MsgsOfChunk(chat, chunks[k]))
        IN  /\ \A k \in 1..Len(chunks) :
                   Len(chunks[k].message_ids) > 1 => R(k) <= max_chars
            /\ \A k \in 1..(Len(chunks) - 1) :
                   R(k) + RenderedLen(MsgsOfChunk(chat, chunks[k + 1])[1]) > max_chars
            /\ Len(chat.messages) = 2 =>
                   Len(chunks) = IF RenderedSum(chat.messages) > max_chars THEN 2 ELSE 1

\* two messages that fill the budget exactly stay in one chunk, and the third
\* message opens the next chunk
C4_Witness ==
    /\ exp_pc = "returned"
    /\ Len(chunks) = 2
    /\ Len(chunks[1].message_ids) = 2
    /\ RenderedSum(MsgsOfChunk(exp_chats[ci], chunks[1])) = max_chars

(***************************************************************************)
(* Claims on the processors, checked under SpecProc                        *)
(***************************************************************************)
RECURSIVE IsSubsequence(_, _)
IsSubsequence(s, t) ==
    IF s = <<>> THEN TRUE
    ELSE IF t = <<>> THEN FALSE
    ELSE IF Head(s) = Head(t) THEN IsSubsequence(Tail(s), Tail(t))
    ELSE IsSubsequence(s, Tail(t))

\* C9: every message of a chat returned by a processor (cleaner, privacy
\* redactor with any replacement template, tagger) has non-empty text.
C9_NonEmptyText ==
    p_last # "idle" =>
        \A k \in 1..Len(p_chat.messages) : p_chat.messages[k].text # <<>>

\* C10: after any number of applications of the three processors in any
\* order, the ids of the chat's messages are a subsequence of the ids of the
\* input's messages, and each kept message has the role and the timestamp of
\* the input message with its id.
C10_OnlyFilter ==
    p_last # "idle" =>
        /\ IsSubsequence(IdsOf(p_chat.messages), IdsOf(p_input.messages))
        /\ Len(p_chat.messages) <= Len(p_input.messages)
        /\ \A k \in 1..Len(p_chat.messages) :
               \E j \in 1..Len(p_input.messages) :
                   /\ p_input.messages[j].id = p_chat.messages[k].id
                   /\ p_input.messages[j].role = p_chat.messages[k].role
                   /\ p_input.messages[j].timestamp = p_chat.messages[k].timestamp

\* two processors have run, one message was dropped and the text of a kept
\* one was rewritten
C10_Witness ==
    /\ p_last # "idle"
    /\ p_steps = 2
    /\ Len(p_input.messages) = 2
    /\ Len(p_chat.messages) = 1
    /\ \E j \in 1..2 :
           /\ p_input.messages[j].id = p_chat.messages[1].id
           /\ p_input.messages[j].text # p_chat.messages[1].text

(***************************************************************************)
(* Claims on the tree reconstruction, checked under SpecTree               *)
(***************************************************************************)
\* the positions in a mapping of the nodes that have no parent
ParentlessNodes(mapping) ==
    { i \in 1..Len(mapping.v) : Get(mapping.v[i].v, <<"p", "a", "r", "e", "n", "t">>, JNull).t = "null" }

\* the ids of the nodes reached from id by following the first entry of
\* children, at most fuel of them
RECURSIVE PrimaryPath(_, _, _)
PrimaryPath(mapping, id, fuel) ==
    IF fuel = 0 \/ ~HasKey(mapping, id) THEN <<>>
    ELSE LET children == Get(Get(mapping, id, JNull), <<"c", "h", "i", "l", "d", "r", "e", "n">>, JList(<<>>)).v
         IN  <<id>> \o (IF children = <<>> THEN <<>>
                        ELSE PrimaryPath(mapping, children[1].v, fuel - 1))

\* the primary thread of a mapping that has one root and whose path from the
\* root comes to an end
HasPrimaryThread(mapping) ==
    /\ Cardinality(ParentlessNodes(mapping)) = 1
    /\ LET root == mapping.v[CHOOSE i \in ParentlessNodes(mapping) : TRUE].k
       IN  Len(PrimaryPath(mapping, root, Len(mapping.v) + 1)) <= Len(mapping.v)

PrimaryThread(mapping) ==
    LET root == mapping.v[CHOOSE i \in ParentlessNodes(mapping) : TRUE].k
    IN  PrimaryPath(mapping, root, Len(mapping.v))

AcceptedMessages(mapping, path) ==
    Flatten([k \in 1..Len(path) |->
                LET msg_data == Get(Get(mapping, path[k], JNull), <<"m", "e", "s", "s", "a", "g", "e">>, JNull)
                IN  IF msg_data.t = "null" THEN <<>> ELSE _parse_message(msg_data)])

\* C5: for a mapping with one root whose first-child path ends, the loader
\* outputs exactly the accepted messages of the nodes on the path from the
\* root along the first entry of children, in path order: a node with no
\* message or a rejected one does not stop the descent, and no message of
\* another child appears.
C5_PrimaryThread ==
    (t_pc \in {"traversed", "skipped"} /\ HasPrimaryThread(t_mapping)) =>
        t_messages = AcceptedMessages(t_mapping, PrimaryThread(t_mapping))

\* the same, for mappings whose root has a non-empty id
PrimaryThread_NamedRoot ==
    (/\ t_pc \in {"traversed", "skipped"}
     /\ HasPrimaryThread(t_mapping)
     /\ PrimaryThread(t_mapping)[1] # <<>>) =>
        t_messages = AcceptedMessages(t_mapping, PrimaryThread(t_mapping))

\* a walk over three nodes that yields two messages and leaves out the
\* accepted message of a second child
PrimaryThread_Reached ==
    /\ t_pc = "traversed"
    /\ HasPrimaryThread(t_mapping)
    /\ Len(PrimaryThread(t_mapping)) = 2
    /\ Len(t_messages) = 2
    /\ Len(AcceptedMessages(t_mapping, NodeIds)) = 3

(***************************************************************************)
(* Claims on the loaders and on convert, checked under SpecConvert         *)
(***************************************************************************)
\* the record the generator of load() took last
LastRecord == input_file.v[data_pos]

\* parsing a message of the record raises: for the tree loader a message on
\* the walk from the root, for the other loader an entry of chat_messages
MessageParseRaises(platform, conv) ==
    IF conv.t # "dict" THEN FALSE
    ELSE IF platform = "chatgpt"
    THEN LET mapping == Get(conv, <<"m", "a", "p", "p", "i", "n", "g">>, JDict(<<>>))
             root_id == _find_root(mapping)
             path == PrimaryPath(mapping, root_id.v, Len(mapping.v))
         IN  /\ root_id.t = "str"
             /\ \E k \in 1..Len(path) :
                    LET msg_data == Get(Get(mapping, path[k], JNull),
                                        <<"m", "e", "s", "s", "a", "g", "e">>, JNull)
                    IN  Truthy(msg_data) /\ ParseMessageBody(msg_data).raised
    ELSE LET chat_messages == Get(conv, <<"c", "h", "a", "t", "_", "m", "e", "s", "s", "a", "g", "e", "s">>, JList(<<>>))
         IN  /\ chat_messages.t = "list"
             /\ \E k \in 1..Len(chat_messages.v) : ClaudeMessage(chat_messages.v[k]).raised

\* C6: whatever the records of the input array are, a record that is not a
\* mapping included, load() never raises: no run of convert ends in an
\* exception that left the loader.
C6_FaultContainment == cv_pc # "crashed"

\* C7: a record is parsed in full or skipped in full: when load() has
\* yielded a chat for a record, the parse of no message of that record raised.
C7_AtomicParse ==
    cv_pc = "body" => ~MessageParseRaises(cv_source, LastRecord)

\* C8: every chat of a list handed to exporter.export has at least one
\* message, for every input and every combination of processors.
C8_NoEmptyChatExported ==
    \A k \in 1..Len(exported) :
        \A j \in 1..Len(exported[k]) : exported[k][j].messages # <<>>

\* a run that exported one chat after the run loop dropped another one, which
\* the processors had left without messages
C8_Witness ==
    /\ exported # <<>>
    /\ Len(exported[1]) = 1
    /\ stats.skipped_empty = 1
    /\ stats.total_conversations = 2


(***************************************************************************)
(* Claims on the selection of loader and exporter, on a file that cannot   *)
(* be decoded and on the counter of skipped conversations, checked under   *)
(* SpecConvert.                                                            *)
(***************************************************************************)
\* C18: a platform tag without a registered loader and an unknown format tag
\* end the run at the selection (get_loader, get_exporter raise), with the
\* input file unread and nothing handed to an exporter; whenever the input
\* has been read or an export made, both selections had succeeded.
C18_UnknownTagsRejected ==
    LET unknown_source == cv_source \notin {"chatgpt", "claude"}
        unknown_format == Lower(format) \notin {<<"m", "a", "r", "k", "d", "o", "w", "n">>, <<"m", "d">>, <<"j", "s", "o", "n">>, <<"a", "s", "p", "e", "n", "d", "o", "s">>}
    IN  /\ (unknown_source \/ unknown_format) =>
               /\ cv_pc \in {"start", "exporter", "exit1"}
               /\ ~input_read
               /\ exported = <<>>
        /\ (unknown_source /\ cv_pc # "start") => (cv_pc = "exit1" /\ loader = None)
        /\ (unknown_format /\ cv_pc \notin {"start", "exporter"}) =>
               (cv_pc = "exit1" /\ exporter = None)
        /\ (input_read \/ exported # <<>>) => (loader # None /\ exporter # None)

\* the loader was selected, the format tag was rejected, the file is unread
C18_Witness ==
    /\ cv_pc = "exit1"
    /\ loader = "ChatGPTLoader"
    /\ exporter = None
    /\ Lower(format) = <<"x", "m", "l">>
    /\ ~input_read

\* C19: when the input file cannot be decoded, the run ends with exit code 1
\* at the count (the first read of the file): no chat is loaded or passed
\* through the processors, and exporter.export is never called.
C19_FatalInputAborts ==
    input_file.t = "undecodable" =>
        /\ cv_pc \in {"start", "exporter", "count", "exit1"}
        /\ input_read => cv_pc = "exit1"
        /\ cv_chat = <<>>
        /\ stats = NoStats
        /\ processed_chats = <<>>
        /\ exported = <<>>

C19_Witness ==
    /\ input_file.t = "undecodable"
    /\ input_read
    /\ loader # None
    /\ exporter # None
    /\ cv_pc = "exit1"

\* a record that parses without error into a chat that has no message
EmptyAfterLoading(platform, conv) ==
    LET parsed == ParseConversation(platform, conv, "conversations.json")
    IN  /\ ~parsed.escaped
        /\ parsed.chats # <<>>
        /\ parsed.chats[1].messages = <<>>

\* C20: at the end of a run, skipped_empty is the number of conversations that
\* were empty after loading plus the number the processors emptied (the
\* conversations seen that were not collected); malformed records are in
\* neither.
C20_SkippedAccounting ==
    cv_pc = "done" =>
        stats.skipped_empty =
            Cardinality({ k \in 1..Len(input_file.v) :
                            EmptyAfterLoading(cv_source, input_file.v[k]) })
                + (stats.total_conversations - Len(processed_chats))


(***************************************************************************)
(* Claims on single processors, checked under SpecCall.                    *)
(***************************************************************************)
\* C11: after process(chat) returns, for cleaner, redactor and tagger alike,
\* the object that was passed holds the value it held when the call was made
\* (title, tags, messages and their order), and the result is another object.
C11_InputUnmodified ==
    call_pc \in {"returned", "again", "failed"} =>
        /\ heap[call_arg] = call_snapshot
        /\ call_pc # "failed" => call_result # call_arg
        /\ call_pc = "again" => heap[2] = call_snapshot

\* a cleaner has returned a chat that differs from the one it was given
C11_Witness ==
    /\ call_pc = "returned"
    /\ service.kind = "cleaner"
    /\ Len(call_snapshot.messages) = 2
    /\ Len(heap[call_result].messages) = 1
    /\ heap[call_arg] = call_snapshot

\* C12: with remove_boilerplate disabled, cleaning the cleaned chat again
\* with the same configuration changes nothing: process(process(chat)) has
\* the messages of process(chat).
C12_CleanerIdempotent ==
    (call_pc = "again" /\ service.kind = "cleaner" /\ ~service.cleaner.remove_boilerplate)
        => heap[call_result].messages = heap[call_arg].messages

NoOccurrence(type, text) == SearchFrom(PII_PATTERNS(type), text, 1) = <<>>

C15_ConfigErrorsAtConstruction ==
    /\ (service.kind = "privacy" /\ service.redact_types \ Range(PiiTypes) # {})
           => (call_pc = "raised" /\ call_error = "ValueError")
    /\ call_pc # "failed"

\* C16: the tags the tagger returns are those it returns for the same chat
\* without prior tags; with an empty corpus the result has no tags.
C16_TagsReplaced ==
    (call_pc \in {"returned", "again"} /\ service.kind = "tagger") =>
        /\ heap[call_result].tags =
               TaggerProcess(service.tagger, service.rake,
                             [call_snapshot EXCEPT !.tags = <<>>]).tags
        /\ TaggerCorpus(service.tagger, call_snapshot) = <<>>
               => heap[call_result].tags = <<>>

\* a chat with a prior tag and an empty corpus has been tagged
C16_Witness ==
    /\ call_pc = "returned"
    /\ service.kind = "tagger"
    /\ call_snapshot.tags = << <<"o", "l", "d">> >>
    /\ TaggerCorpus(service.tagger, call_snapshot) = <<>>
    /\ heap[call_result].tags = <<>>

\* C17: the tagger returns at most max_tags tags.
C17_TagCountBound ==
    (call_pc \in {"returned", "again"} /\ service.kind = "tagger") =>
        Len(heap[call_result].tags) <= service.tagger.max_tags


(***************************************************************************)
(* Claims on the Markdown exporter, checked under SpecNotes.               *)
(***************************************************************************)
\* the name the title of chat k asks for
WantedStem(k) == _sanitize_filename(md_chats[k].title)

\* stem.md, stem_1.md, stem_2.md, ...
NumberedName(stem, n) ==
    IF n = 0 THEN stem \o <<".", "m", "d">>
    ELSE stem \o <<"_">> \o IntToStr(n) \o <<".", "m", "d">>

\* how many chats before chat k share its sanitized title
EarlierSameTitle(k) ==
    Cardinality({ j \in 1..(k - 1) : WantedStem(j) = WantedStem(k) })

\* the directory right after write k
DirAfter(k) == IF k < Len(md_log) THEN md_log[k + 1].before ELSE directory

\* every write went to a path that did not exist, added one file and left
\* every file that was there as it was
NeverOverwrites ==
    \A k \in 1..Len(md_log) :
        /\ ~md_log[k].existed
        /\ md_log[k].before \subseteq DirAfter(k)
        /\ Cardinality(DirAfter(k)) = Cardinality(md_log[k].before) + 1

\* C13, as stated: no write of export() replaces a file, and the chats that
\* share a sanitized title T are named T.md, T_1.md, T_2.md, ... in export
\* order, whatever the directory already holds.
C13_NamedInExportOrder ==
    /\ NeverOverwrites
    /\ \A k \in 1..Len(md_log) :
           md_log[k].path = NumberedName(WantedStem(k), EarlierSameTitle(k))

\* C13, amended: no write of export() replaces a file; N chats add N files
\* and leave every earlier file unchanged; each chat gets the first name of
\* T.md, T_1.md, T_2.md, ... that does not exist at the time of its write.
C13_NeverOverwrites ==
    /\ NeverOverwrites
    /\ Cardinality(directory) =
           Len(md_log) + Cardinality(IF md_log = <<>> THEN directory
                                     ELSE md_log[1].before)
    /\ \A k \in 1..Len(md_log) :
           \E n \in 0..Cardinality(md_log[k].before) :
               /\ md_log[k].path = NumberedName(WantedStem(k), n)
               /\ \A m \in 0..(n - 1) :
                      Exists(md_log[k].before, NumberedName(WantedStem(k), m))

\* an export into a directory that held files, finished, in which a chat
\* found its name taken and was written under a numbered one
C13_Witness ==
    /\ md_pc = "done"
    /\ Len(md_log) >= 2
    /\ md_log[1].before # {}
    /\ \E k \in 1..Len(md_log) :
           /\ Exists(md_log[k].before, NumberedName(WantedStem(k), 0))
           /\ md_log[k].path # NumberedName(WantedStem(k), 0)
           /\ \E f \in directory : f.path = md_log[k].path


(***************************************************************************)
(* Claims on the loading of one record, checked under SpecLoad.            *)
(***************************************************************************)
KnownRoles(platform) ==
    IF platform = "chatgpt" THEN { JStr(<<"u", "s", "e", "r">>), JStr(<<"a", "s", "s", "i", "s", "t", "a", "n", "t">>), JStr(<<"s", "y", "s", "t", "e", "m">>) }
    ELSE { JStr(<<"h", "u", "m", "a", "n">>), JStr(<<"a", "s", "s", "i", "s", "t", "a", "n", "t">>) }

\* chats with the role of message ident set to system
AsSystem(chats, ident) ==
    [c \in 1..Len(chats) |->
        [chats[c] EXCEPT !.messages =
            [j \in 1..Len(@) |-> IF @[j].id = ident THEN [@[j] EXCEPT !.role = "system"]
                                 ELSE @[j]]]]

\* chats without message ident
Without(chats, ident) ==
    [c \in 1..Len(chats) |->
        [chats[c] EXCEPT !.messages = SelectSeq(@, LAMBDA m : m.id # ident)]]

\* C21: a message with text whose role is outside the known values is kept
\* with role system by the Claude loader, whatever the value (the record
\* gives what it gives with the sender assistant, but for that role), and is
\* dropped by the ChatGPT loader without an error (its parse does not raise,
\* and the record gives what it gives with the role assistant, less that
\* message); every message yielded has the role user, assistant or system.
C21_UnknownRolePolicy ==
    /\ \A c \in 1..Len(ld_yielded) :
           \A j \in 1..Len(ld_yielded[c].messages) :
               ld_yielded[c].messages[j].role \in MessageRole
    /\ ld_pc = "next" =>
           \A role \in LoadRoles \ KnownRoles(ld_source), msg_time, conv_time \in LoadTimes :
               ld_conv = LoadSample(ld_source, role, msg_time, conv_time) =>
                   LET known == LoadRecord(ld_source,
                                    LoadSample(ld_source, JStr(<<"a", "s", "s", "i", "s", "t", "a", "n", "t">>), msg_time, conv_time),
                                    "conversations.json").chats
                   IN  IF ld_source = "claude"
                       THEN ld_yielded = AsSystem(known, <<"m", "2">>)
                       ELSE /\ ~ParseMessageBody(LoadGptMessage(<<"m", "2">>, role, <<"y", "o">>, msg_time)).raised
                            /\ ld_yielded = Without(known, <<"m", "2">>)

\* the Claude loader has yielded a chat whose second message, of sender tool,
\* has the role system
C21_Witness ==
    /\ ld_pc = "next"
    /\ ld_source = "claude"
    /\ ld_conv = LoadSample("claude", JStr(<<"t", "o", "o", "l">>), JNull, JNull)
    /\ Len(ld_yielded) = 1
    /\ Len(ld_yielded[1].messages) = 2
    /\ ld_yielded[1].messages[2].role = "system"

\* a timestamp the loader can convert
Convertible(platform, time) ==
    IF platform = "chatgpt" THEN time.t \in {"int", "bool"}
    ELSE time.t = "str" /\ time.v \in IsoDates

Absent(platform, time) == IF Convertible(platform, time) THEN time ELSE JNull

\* C24: a timestamp that cannot be converted, of a message or of the record,
\* is left absent and nothing else changes: the record gives the chat and the
\* messages it gives without that timestamp.
C24_TimestampFailuresLocal ==
    ld_pc \in {"raised", "next"} =>
        \A role \in LoadRoles, msg_time, conv_time \in LoadTimes :
            ld_conv = LoadSample(ld_source, role, msg_time, conv_time) =>
                /\ ld_pc = "next"
                /\ ld_yielded = LoadRecord(ld_source,
                                    LoadSample(ld_source, role, Absent(ld_source, msg_time),
                                               Absent(ld_source, conv_time)),
                                    "conversations.json").chats


(***************************************************************************)
(* Claims on the tree walk, call by call, checked under SpecWalk.         *)
(***************************************************************************)
\* the first-child chain from the root visits no node twice
ChainEnds ==
    /\ w_pc \in {"call", "returned", "raised"}
    /\ Len(PrimaryPath(w_mapping, w_root_id.v, Len(w_mapping.v) + 1)) <= Len(w_mapping.v)

\* the first-child chain from the root comes back to a node
ChainCycles ==
    /\ w_pc \in {"call", "returned", "raised"}
    /\ Len(PrimaryPath(w_mapping, w_root_id.v, Len(w_mapping.v) + 1)) > Len(w_mapping.v)

\* the first-child chain from the root ends on an id the mapping does not have
ChainLeavesMapping ==
    /\ ChainEnds
    /\ LET path == PrimaryPath(w_mapping, w_root_id.v, Len(w_mapping.v))
           children == Get(Get(w_mapping, path[Len(path)], JNull), <<"c", "h", "i", "l", "d", "r", "e", "n">>, JList(<<>>)).v
       IN  /\ children # <<>>
           /\ ~HasKey(w_mapping, children[1].v)

Walk_CycleRaised ==
    /\ w_pc = "raised"
    /\ ChainCycles


(***************************************************************************)
(* Claims on the canonical JSON exporter, checked under SpecJson.          *)
(***************************************************************************)
\* what the round trip has to keep of a chat: all but the ids
Kept(chat) ==
    [title |-> chat.title, source |-> chat.source, created_at |-> chat.created_at,
     updated_at |-> chat.updated_at, tags |-> chat.tags,
     messages |-> [k \in 1..Len(chat.messages) |->
                      [role |-> chat.messages[k].role, text |-> chat.messages[k].text,
                       timestamp |-> chat.messages[k].timestamp]]]

\* C22: the chats a loader yields from the file the exporter wrote are the
\* exported chats, in order, with the same title, source, timestamps, tags and
\* messages (roles, texts, order); ids are not compared.
C22_JsonRoundTrip ==
    js_pc \in {"reloaded", "reload_raised"} =>
        /\ js_pc = "reloaded"
        /\ Len(js_reloaded) = Len(js_chats)
        /\ \A k \in 1..Len(js_chats) : Kept(js_reloaded[k]) = Kept(js_chats[k])

\* the same for the loaders that read the file without an error
RoundTrip_WhenLoaded ==
    js_pc = "reloaded" =>
        /\ Len(js_reloaded) = Len(js_chats)
        /\ \A k \in 1..Len(js_chats) : Kept(js_reloaded[k]) = Kept(js_chats[k])

\* a written file from which a loader yields a chat
RoundTrip_SomeChat ==
    js_pc = "reloaded" /\ js_reloaded # <<>>

\* the files of the destination that hold chat
FilesOf(chat) == { f \in js_files : f.data = _chat_to_dict(chat) }

\* C26: after an export of N chats without single_file the destination holds
\* N files, and each chat has a file that holds this chat; this for every
\* list of chats, chats with equal ids and with the empty id included.
C26_OneFilePerChat ==
    (js_pc = "done" /\ ~js_exporter.single_file) =>
        /\ Cardinality(js_files) = Len(js_chats)
        /\ \A k \in 1..Len(js_chats) : FilesOf(js_chats[k]) # {}

\* the same for lists of chats whose ids differ
OneFilePerChat_DistinctIds ==
    (/\ js_pc = "done" /\ ~js_exporter.single_file
     /\ \A j, k \in 1..Len(js_chats) : j # k => js_chats[j].id # js_chats[k].id) =>
        /\ Cardinality(js_files) = Len(js_chats)
        /\ \A k \in 1..Len(js_chats) : FilesOf(js_chats[k]) # {}


(***************************************************************************)
(* Claims on the text functions, checked under SpecText.                   *)
(***************************************************************************)
Contains(text, part) ==
    \E i \in 1..(Len(text) - Len(part) + 1) : SubSeq(text, i, i + Len(part) - 1) = part

Occurrences(type, text) == Range(FindAll(PII_PATTERNS(type), text))

\* the occurrences in text of the categories outside the set, apart from those
\* that share characters with an occurrence of a category of the set
OutsideOnly(types, text) ==
    { occ \in UNION { Occurrences(type, text) : type \in Range(PiiTypes) \ types } :
        \A type \in types : \A m \in Occurrences(type, text) :
            ~Contains(m, occ) /\ ~Contains(occ, m) }

OnlySelected(types) ==
    /\ "detect" \in tx_done =>
           \A k \in 1..Len(tx_findings) :
               /\ tx_findings[k].type \in types
               /\ tx_findings[k].matches = FindAll(PII_PATTERNS(tx_findings[k].type), tx_text)
    /\ "redact" \in tx_done =>
           /\ \A occ \in OutsideOnly(types, tx_text) : Contains(tx_redacted, occ)
           /\ (\A type \in types : Occurrences(type, tx_text) = {}) => tx_redacted = tx_text

\* C25: for every set S of categories the service is made with, the empty set
\* included, detect() reports categories of S only, each with its matches, and
\* the redacted text still holds every occurrence of a category outside S that
\* no occurrence of a category of S touches; a text without an occurrence of a
\* category of S comes back unchanged.
C25_OnlySelectedCategories ==
    OnlySelected(tx_service.redact_types)

\* the same for the services made with a set that is not empty
OnlySelected_NonEmptySet ==
    tx_service.redact_types # {} => OnlySelected(tx_service.redact_types)

\* {email} leaves the number of "mail a@b.co or 123-45-6789" in place
OnlySelected_Reached ==
    /\ tx_done = {"redact", "detect", "tags"}
    /\ tx_service.redact_types = {"email"}
    /\ tx_redacted = <<"m", "a", "i", "l", " ", "[", "R", "E", "D", "A", "C", "T", "E", "D", "_", "E", "M", "A", "I", "L", "]", " ", "o", "r", " ", "1", "2", "3", "-", "4", "5", "-", "6", "7", "8", "9">>
    /\ Len(tx_findings) = 1

\* C28: the redacted text is the same in whatever order the loop of
\* _redact_text visits the selected categories.
C28_RedactionOrderFree ==
    "redact" \in tx_done =>
        \A order \in IterationOrders(RedactTypesOf(tx_service.redact_types)) :
            _redact_text(order, tx_service.replacement_format, tx_text) = tx_redacted

\* the same for the texts in which no two occurrences of selected categories
\* share a character
OrderFree_NoOverlap ==
    ("redact" \in tx_done
        /\ \A s, t \in RedactTypesOf(tx_service.redact_types) :
               s # t => \A m \in Occurrences(s, tx_text) : \A n \in Occurrences(t, tx_text) :
                            ~Contains(m, n) /\ ~Contains(n, m)) =>
        \A order \in IterationOrders(RedactTypesOf(tx_service.redact_types)) :
            _redact_text(order, tx_service.replacement_format, tx_text) = tx_redacted

\* the words _extract_simple counts, in corpus order
CountedWords(text) ==
    SelectSeq(FindAll(WORD_PATTERN, Lower(text)), LAMBDA w : w \notin stop_words)

Occurs(word, words) == Cardinality({ k \in 1..Len(words) : words[k] = word })

FirstSeen(word, words) == CHOOSE k \in 1..Len(words) : words[k] = word /\ \A l \in 1..(k - 1) : words[l] # word

\* word a ranks before word b: more occurrences, or as many and seen first
RanksBefore(a, b, words) ==
    \/ Occurs(a, words) > Occurs(b, words)
    \/ Occurs(a, words) = Occurs(b, words) /\ FirstSeen(a, words) < FirstSeen(b, words)

Min(a, b) == IF a < b THEN a ELSE b

RedactorReturned == ch_pos >= 1 /\ ch_processors[ch_pos].kind = "privacy"

\* a tagger ran before the redactor
TaggerRanBefore == \E k \in 1..(ch_pos - 1) : ch_processors[k].kind = "tagger"

\* no text of the set holds an occurrence of a category the service selects
Clean(svc, texts) ==
    \A type \in RedactTypesOf(svc.redact_types), text \in texts : Occurrences(type, text) = {}

\* C29: in every order of the chain, the chat the redactor returns holds no
\* occurrence of a selected category in its title, in its message texts or in
\* its tags, the tags of a tagger that ran before the redactor included
C29_NoPiiSurvives ==
    RedactorReturned =>
        Clean(ch_processors[ch_pos],
              {ch_chat.title} \cup { m.text : m \in Range(ch_chat.messages) }
                  \cup Range(ch_chat.tags))

\* the title and the message texts the redactor returns are clean
NoPiiSurvives_TitleAndTexts ==
    RedactorReturned =>
        Clean(ch_processors[ch_pos],
              {ch_chat.title} \cup { m.text : m \in Range(ch_chat.messages) })

\* so are the tags when no tagger ran before the redactor
NoPiiSurvives_NoTaggerBefore ==
    RedactorReturned /\ ~TaggerRanBefore =>
        Clean(ch_processors[ch_pos], Range(ch_chat.tags))


(***************************************************************************)
(* Claims on the counters of a run, checked under SpecConvert.             *)
(***************************************************************************)
\* the sum of len(chat.messages) over a list of chats
MessageCount(chats) == SumSeq([k \in 1..Len(chats) |-> Len(chats[k].messages)])

RunCounters_TwoMessages ==
    /\ cv_pc = "done"
    /\ Len(processed_chats) = 1
    /\ stats.total_messages = 2

\* a run that saw fewer conversations than the file has records
RunCounters_RecordDropped ==
    /\ cv_pc = "export"
    /\ stats.total_conversations = 1
    /\ total_conversations = 2

====
